---- MODULE Spec2Model ----
(***************************************************************************)
(* ObsiCard: the content-to-card pipeline and its delivery queue.          *)
(*                                                                         *)
(*   Spec     AnkiSyncService (services/AnkiSyncService.ts): deliver,      *)
(*            processQueue, the queue and its localStorage blob.           *)
(*   SpecGen  GroqFlashcardService (services/GroqFlashcardService.ts):     *)
(*            generateFlashcards over TokenUtils, Sanitizer and Validator. *)
(*   SpecUtil chunkText, validateFlashcards, repairFlashcards,             *)
(*            normalizeTags and validateGroqResponse called directly.      *)
(*   SpecPlugin  ObsiCardPlugin (main.ts): onload, saveSettings, onunload  *)
(*            and the interval timer of the queue processing.              *)
(*   SpecPass, SpecBatch, SpecExit, SpecRetry and SpecGenFair restrict or  *)
(*   extend the steps of Spec and SpecGen, the last two with fairness.     *)
(*                                                                         *)
(* Every `await` of the source is a point where another logical call may   *)
(* run, so each async method is a process whose program counter names the  *)
(* await it is suspended at; the code between two awaits is one action.    *)
(* The store's answers are the environment's choice at every call.         *)
(***************************************************************************)
EXTENDS Integers, Sequences, FiniteSets, TLC

(* ------------------------------ bounds -------------------------------- *)
\* cards handed to deliver over one run (each deliver call brings a new card)
MaxCards == 2
\* largest value the maxRetries setting takes in the model (UI allows 0..10)
MaxRetriesSetting == 1
\* paragraphs of the longest content handed to generateFlashcards
MaxParagraphs == 4
\* largest value the maxParallelRequests setting takes in the model (UI allows 1..5)
MaxParallelSetting == 2
\* the maxChunkSize setting in the model, in tokens (UI allows 1..8000)
SmallChunkSize == 2

\* paragraphs of the longest text handed to chunkText directly
MaxTextParagraphs == 3
\* candidates of the longest list handed to validateFlashcards and repairFlashcards
MaxBatch == 2
\* tags of the lists handed to normalizeTags (next to two lists over MAX_TAGS)
MaxTagList == 3
\* interval timers the plugin starts in one run
MaxTimers == 3

Cards == 1..MaxCards
\* the logical calls that may be in flight together: one deliver call
\* (syncFlashcard or syncFlashcardWithStatus) and two processQueue calls
\* (the command and the periodic timer)
DProcs == {"d1"}
SProcs == {"s1", "s2"}
PProcs == {"p1", "p2"}

\* settings.ankiDeckName default, and a caller-supplied customDeckName
DefaultDeck == "ObsiCard"
CustomDeck == "Custom"
NoDeck == "undefined"

\* localStorage.getItem on a key never written
NoBlob == <<"null">>

VARIABLES
  settings,          \* this.settings (the fields the services read)
  syncQueue,         \* this.syncQueue
  isProcessingQueue, \* this.isProcessingQueue
  storage,           \* localStorage['obsicard-sync-queue']
  dpc, dcard, dkind, ddeck, dret,  \* deliver calls: position, arguments, result
  ppc, pitems, pidx, psuccess, pret, \* processQueue calls: position, locals, result
  pout,              \* history: how each replay of the pass in flight ended
  nextCard,          \* next fresh card
  bpc,               \* syncFlashcards: position
  bn, bi, bdeck,     \* its flashcards.length, loop index and customDeckName
  bcounts,           \* its syncedCount, queuedCount, errorCount
  bout,              \* history: the card and the status of each call it awaited
  outstanding,       \* history: cards enqueued and since neither delivered nor dropped
  gpc,               \* generateFlashcards: position
  ginput, gnote,     \* its arguments content and noteName
  gsum,              \* the summarize call: "none", "pending", "fulfilled", "rejected"
  gchunks,           \* processChunks: chunks
  gi,                \* processChunks: i
  gres,              \* the promise of each chunk's generateFromChunk call
  allFlashcards,     \* processChunks: allFlashcards
  gret,              \* what generateFlashcards returned or threw
  ucall, uarg, ures, \* a direct call of a TokenUtils / Validator / Sanitizer
                     \* function: which one, its arguments, what it returned
  lpc,               \* ObsiCardPlugin: "unloaded", "loadSettings" (onload awaits), "loaded"
  queueProcessInterval, \* this.queueProcessInterval (0: undefined)
  timers,            \* the interval timers of the window that are active
  nextTimer,         \* the id the next window.setInterval returns
  spc                \* saveSettings calls: position

syncVars == <<syncQueue, isProcessingQueue, storage,
              dpc, dcard, dkind, ddeck, dret,
              ppc, pitems, pidx, psuccess, pret, pout, nextCard, outstanding,
              bpc, bn, bi, bdeck, bcounts, bout>>

batchVars == <<bpc, bn, bi, bdeck, bcounts, bout>>

genVars == <<gpc, ginput, gnote, gsum, gchunks, gi, gres, allFlashcards, gret>>

utilVars == <<ucall, uarg, ures>>

pluginVars == <<lpc, queueProcessInterval, timers, nextTimer, spc>>

vars == <<settings, syncVars, genVars, utilVars, pluginVars>>

(* ------------------------------ helpers ------------------------------- *)
RECURSIVE SeqToSet(_)
SeqToSet(s) == IF s = <<>> THEN {} ELSE {Head(s)} \cup SeqToSet(Tail(s))

\* QueuedSyncItem {flashcard, timestamp, retryCount}; the timestamp is written
\* once by queueFlashcard and read nowhere, so it is not carried.
QueuedSyncItem(flashcard) == [flashcard |-> flashcard, retryCount |-> 0]

\* JSON.stringify(this.syncQueue): the blob is text, one entry per item in order
JSONstringify(queue) == [i \in 1..Len(queue) |-> <<"item", queue[i].flashcard, queue[i].retryCount>>]

\* JSON.parse(saved)
JSONparse(blob) == [i \in 1..Len(blob) |-> [flashcard |-> blob[i][2], retryCount |-> blob[i][3]]]

\* saveQueue(): localStorage.setItem(key, JSON.stringify(this.syncQueue))
saveQueue(queue) == JSONstringify(queue)

\* loadQueue(): if (saved) this.syncQueue = JSON.parse(saved); field default []
loadQueue(blob) == IF blob = NoBlob THEN <<>> ELSE JSONparse(blob)

QueueCards(queue) == {queue[i].flashcard : i \in 1..Len(queue)}
BlobCards(blob) == IF blob = NoBlob THEN {} ELSE {blob[i][2] : i \in 1..Len(blob)}

\* return values of syncFlashcardWithStatus / syncFlashcard
NoRet == [synced |-> FALSE, queued |-> FALSE, error |-> FALSE, ret |-> "none"]
StatusRet(s, q, e) == [synced |-> s, queued |-> q, error |-> e, ret |-> "status"]
BoolRet == [synced |-> FALSE, queued |-> FALSE, error |-> FALSE, ret |-> "true"]
ThrowRet == [synced |-> FALSE, queued |-> FALSE, error |-> FALSE, ret |-> "throw"]

\* const deckName = customDeckName || this.settings.ankiDeckName
deckName(customDeckName) == IF customDeckName = NoDeck THEN DefaultDeck ELSE customDeckName

(* ------------------------------ strings ------------------------------- *)
\* A string is kept run-length encoded: a sequence of runs <<class, n>>, n >= 1,
\* no two neighbouring runs of one class.  The classes are the ones the code's
\* regular expressions tell apart: "a" any other character, " " blank,
\* "n" newline, "." a sentence terminator (one of . ! ?).
Whitespace == {" ", "n"}

RECURSIVE StrLen(_)
StrLen(s) == IF s = <<>> THEN 0 ELSE Head(s)[2] + StrLen(Tail(s))

\* s + t
Concat(s, t) ==
  IF s = <<>> THEN t
  ELSE IF t = <<>> THEN s
  ELSE IF s[Len(s)][1] = t[1][1]
       THEN SubSeq(s, 1, Len(s) - 1) \o <<<<t[1][1], s[Len(s)][2] + t[1][2]>>>> \o Tail(t)
       ELSE s \o t

RECURSIVE TrimStart(_)
TrimStart(s) == IF s /= <<>> /\ Head(s)[1] \in Whitespace THEN TrimStart(Tail(s)) ELSE s

RECURSIVE TrimEnd(_)
TrimEnd(s) ==
  IF s /= <<>> /\ s[Len(s)][1] \in Whitespace THEN TrimEnd(SubSeq(s, 1, Len(s) - 1)) ELSE s

\* s.trim()
Trim(s) == TrimEnd(TrimStart(s))

\* s.substring(0, n)
RECURSIVE Substring(_, _)
Substring(s, n) ==
  IF s = <<>> \/ n <= 0 THEN <<>>
  ELSE IF Head(s)[2] >= n THEN <<<<Head(s)[1], n>>>>
  ELSE <<Head(s)>> \o Substring(Tail(s), n - Head(s)[2])

Blank == <<<<" ", 1>>>>
ParagraphBreak == <<<<"n", 2>>>>
Ellipsis == <<<<".", 3>>>>

(* ----------------------------- TokenUtils ----------------------------- *)
CHARS_PER_TOKEN == 4
SUMMARIZATION_THRESHOLD == 10000
SUMMARY_FALLBACK_TOKENS == 8000

\* Math.ceil(text.length / CHARS_PER_TOKEN)
countTokens(text) == (StrLen(text) + CHARS_PER_TOKEN - 1) \div CHARS_PER_TOKEN

\* text.split(/\n\n+/)
RECURSIVE SplitParagraphsFrom(_, _, _)
SplitParagraphsFrom(s, cur, acc) ==
  IF s = <<>> THEN Append(acc, cur)
  ELSE IF Head(s)[1] = "n" /\ Head(s)[2] >= 2
       THEN SplitParagraphsFrom(Tail(s), <<>>, Append(acc, cur))
       ELSE SplitParagraphsFrom(Tail(s), Append(cur, Head(s)), acc)

splitParagraphs(text) == SplitParagraphsFrom(text, <<>>, <<>>)

\* text.match(/[^.!?]+[.!?]+/g): a terminator run that follows nothing is
\* skipped, and what follows the last terminator run matches nothing
RECURSIVE MatchSentencesFrom(_, _, _)
MatchSentencesFrom(s, cur, acc) ==
  IF s = <<>> THEN acc
  ELSE IF Head(s)[1] = "."
       THEN IF cur = <<>>
            THEN MatchSentencesFrom(Tail(s), <<>>, acc)
            ELSE MatchSentencesFrom(Tail(s), <<>>, Append(acc, Append(cur, Head(s))))
       ELSE MatchSentencesFrom(Tail(s), Append(cur, Head(s)), acc)

\* text.match(...) || [text]
splitBySentences(text) ==
  LET m == MatchSentencesFrom(text, <<>>, <<>>) IN IF m = <<>> THEN <<text>> ELSE m

TextChunk(content, tokenCount, index) ==
  [content |-> content, tokenCount |-> tokenCount, index |-> index]

\* the state of chunkText's loops: chunks, currentChunk, currentTokenCount
\* (chunkIndex is Len(chunks))
pushChunk(st) ==
  [chunks |-> Append(st.chunks, TextChunk(Trim(st.cur), st.count, Len(st.chunks))),
   cur |-> <<>>, count |-> 0]

\* the inner loop body: one sentence of an oversized paragraph
addSentence(st, sentence, maxChunkSize) ==
  LET sentenceTokens == countTokens(sentence) IN
  IF st.count + sentenceTokens > maxChunkSize
  THEN LET closed == IF st.cur /= <<>> THEN pushChunk(st) ELSE st IN
       [closed EXCEPT !.cur = Concat(sentence, Blank), !.count = sentenceTokens]
  ELSE [st EXCEPT !.cur = Concat(Concat(@, sentence), Blank), !.count = @ + sentenceTokens]

RECURSIVE addSentences(_, _, _)
addSentences(st, sentences, maxChunkSize) ==
  IF sentences = <<>> THEN st
  ELSE addSentences(addSentence(st, Head(sentences), maxChunkSize), Tail(sentences), maxChunkSize)

\* variant: a paragraph that fits is always added to the running chunk
addParagraphNoLimit(st, paragraph, maxChunkSize) ==
  IF countTokens(paragraph) > maxChunkSize
  THEN addSentences(IF st.cur /= <<>> THEN pushChunk(st) ELSE st,
                    splitBySentences(paragraph), maxChunkSize)
  ELSE [st EXCEPT !.cur = Concat(Concat(@, paragraph), ParagraphBreak),
                  !.count = @ + countTokens(paragraph)]

\* the outer loop body: one paragraph
addParagraph(st, paragraph, maxChunkSize) ==
  LET paragraphTokens == countTokens(paragraph) IN
  IF paragraphTokens > maxChunkSize
  THEN addSentences(IF st.cur /= <<>> THEN pushChunk(st) ELSE st,
                    splitBySentences(paragraph), maxChunkSize)
  ELSE IF st.count + paragraphTokens > maxChunkSize
       THEN [pushChunk(st) EXCEPT !.cur = Concat(paragraph, ParagraphBreak),
                                  !.count = paragraphTokens]
       ELSE [st EXCEPT !.cur = Concat(Concat(@, paragraph), ParagraphBreak),
                       !.count = @ + paragraphTokens]

RECURSIVE addParagraphs(_, _, _)
addParagraphs(st, paragraphs, maxChunkSize) ==
  IF paragraphs = <<>> THEN st
  ELSE addParagraphs(addParagraph(st, Head(paragraphs), maxChunkSize), Tail(paragraphs), maxChunkSize)

\* chunkText without the early return for a text that fits one chunk
chunkTextAlwaysSplit(text, maxChunkSize) ==
  LET totalTokens == countTokens(text)
      st == addParagraphs([chunks |-> <<>>, cur |-> <<>>, count |-> 0],
                          splitParagraphs(text), maxChunkSize)
      final == IF Trim(st.cur) /= <<>> THEN pushChunk(st) ELSE st
  IN [chunks |-> final.chunks,
      totalTokens |-> totalTokens,
      requiresSummarization |-> totalTokens > SUMMARIZATION_THRESHOLD]

\* TokenUtils.chunkText(text, maxChunkSize)
chunkText(text, maxChunkSize) ==
  LET totalTokens == countTokens(text) IN
  IF totalTokens <= maxChunkSize
  THEN [chunks |-> <<TextChunk(text, totalTokens, 0)>>,
        totalTokens |-> totalTokens,
        requiresSummarization |-> FALSE]
  ELSE LET st == addParagraphs([chunks |-> <<>>, cur |-> <<>>, count |-> 0],
                               splitParagraphs(text), maxChunkSize)
           final == IF Trim(st.cur) /= <<>> THEN pushChunk(st) ELSE st
       IN [chunks |-> final.chunks,
           totalTokens |-> totalTokens,
           requiresSummarization |-> totalTokens > SUMMARIZATION_THRESHOLD]

\* TokenUtils.truncateToTokenLimit(text, maxTokens); Math.floor(length * ratio)
\* is taken over the exact quotient
truncateToTokenLimit(text, maxTokens) ==
  LET currentTokens == countTokens(text) IN
  IF currentTokens <= maxTokens THEN text
  ELSE Concat(Substring(text, (StrLen(text) * maxTokens) \div currentTokens), Ellipsis)

(* --------------------------- parsed JSON values ----------------------- *)
\* A value the generation service's output parses to.  Every value carries
\* its typeof tag; a string carries its text, an array its elements, an object
\* its own fields.
Undefined == [t |-> "undefined", v |-> <<>>]
Null == [t |-> "null", v |-> <<>>]
Number == [t |-> "number", v |-> <<>>]
String(text) == [t |-> "string", v |-> text]
Array(elements) == [t |-> "array", v |-> elements]
Object(fields) == [t |-> "object", v |-> fields]

IsString(x) == x.t = "string"
IsArray(x) == x.t = "array"
\* x && typeof x === 'object'
IsObjectLike(x) == x.t \in {"object", "array"}
\* !x
Falsy(x) == x.t \in {"undefined", "null"} \/ (x.t = "string" /\ x.v = <<>>)
\* x.k
Get(x, k) == IF x.t = "object" /\ k \in DOMAIN x.v THEN x.v[k] ELSE Undefined

(* ------------------------------ Sanitizer ----------------------------- *)
\* cleaned.replace(/\n{3,}/g, '\n\n')
collapseNewlines(text) ==
  [i \in 1..Len(text) |-> IF text[i][1] = "n" /\ text[i][2] >= 3 THEN <<"n", 2>> ELSE text[i]]

\* Sanitizer.cleanAIArtifacts: the prefix and code-fence patterns match nothing
\* over this alphabet
cleanAIArtifacts(text) == Trim(collapseNewlines(text))

\* sanitized.replace(/\s+/g, ' ')
RECURSIVE collapseWhitespace(_)
collapseWhitespace(text) ==
  IF text = <<>> THEN <<>>
  ELSE IF Head(text)[1] \in Whitespace
       THEN Concat(Blank, collapseWhitespace(TrimStart(text)))
       ELSE Concat(<<Head(text)>>, collapseWhitespace(Tail(text)))

\* Sanitizer.sanitizeText: the markup patterns match nothing over this alphabet
sanitizeText(text) == IF text = <<>> THEN <<>> ELSE Trim(collapseWhitespace(text))

\* Sanitizer.cleanFlashcardContent
cleanFlashcardContent(front, back) ==
  [front |-> sanitizeText(cleanAIArtifacts(front)),
   back |-> sanitizeText(cleanAIArtifacts(back))]

\* tag.toLowerCase(): "A" is an upper-case letter
RECURSIVE toLowerCase(_)
toLowerCase(text) ==
  IF text = <<>> THEN <<>>
  ELSE Concat(<<<<IF Head(text)[1] = "A" THEN "a" ELSE Head(text)[1], Head(text)[2]>>>>,
              toLowerCase(Tail(text)))

MAX_TAG_LENGTH == 50
MAX_TAGS == 10

RECURSIVE dedupe(_, _)
dedupe(tags, seen) ==
  IF tags = <<>> THEN <<>>
  ELSE IF Head(tags) \in seen THEN dedupe(Tail(tags), seen)
       ELSE <<Head(tags)>> \o dedupe(Tail(tags), seen \cup {Head(tags)})

\* variant: tags are capped before duplicates are removed
normalizeTagsCapFirst(tags) ==
  LET lowered == [i \in 1..Len(tags) |-> Trim(toLowerCase(tags[i]))]
      kept == SelectSeq(lowered, LAMBDA tag : StrLen(tag) > 0 /\ StrLen(tag) <= MAX_TAG_LENGTH)
  IN dedupe(SubSeq(kept, 1, IF Len(kept) < MAX_TAGS THEN Len(kept) ELSE MAX_TAGS), {})

\* Sanitizer.normalizeTags
normalizeTags(tags) ==
  LET lowered == [i \in 1..Len(tags) |-> Trim(toLowerCase(tags[i]))]
      kept == SelectSeq(lowered, LAMBDA tag : StrLen(tag) > 0 /\ StrLen(tag) <= MAX_TAG_LENGTH)
      unique == dedupe(kept, {})
  IN SubSeq(unique, 1, IF Len(unique) < MAX_TAGS THEN Len(unique) ELSE MAX_TAGS)

(* ------------------------------ Validator ----------------------------- *)
MAX_FRONT == 5000
MAX_BACK == 10000

fieldErrors(value, name, max) ==
  IF Falsy(value) \/ ~IsString(value) THEN <<<<name, "invalid">>>>
  ELSE IF StrLen(Trim(value.v)) = 0 THEN <<<<name, "empty">>>>
  ELSE IF StrLen(value.v) > max THEN <<<<name, "too long">>>>
  ELSE <<>>

tagErrors(tags) ==
  IF Falsy(tags) \/ ~IsArray(tags) THEN <<<<"tags", "invalid">>>>
  ELSE IF \E i \in 1..Len(tags.v) : ~IsString(tags.v[i]) THEN <<<<"tags", "not strings">>>>
  ELSE <<>>

\* Validator.validateFlashcard
validateFlashcard(flashcard) ==
  IF ~IsObjectLike(flashcard)
  THEN [isValid |-> FALSE, errors |-> <<<<"flashcard", "not an object">>>>]
  ELSE LET errors == fieldErrors(Get(flashcard, "front"), "front", MAX_FRONT)
                     \o fieldErrors(Get(flashcard, "back"), "back", MAX_BACK)
                     \o tagErrors(Get(flashcard, "tags"))
       IN [isValid |-> errors = <<>>, errors |-> errors]

\* variant: an invalid batch hands back its valid candidates as repaired
validateFlashcardsKeepValid(flashcards) ==
  IF ~IsArray(flashcards) \/ Len(flashcards.v) = 0
  THEN [isValid |-> FALSE, errors |-> <<<<0, <<<<"batch", "invalid">>>>>>>>, repaired |-> <<>>]
  ELSE LET bad == SelectSeq([i \in 1..Len(flashcards.v) |-> i],
                            LAMBDA i : ~validateFlashcard(flashcards.v[i]).isValid)
       IN [isValid |-> bad = <<>>,
           errors |-> [k \in 1..Len(bad) |-> <<bad[k], validateFlashcard(flashcards.v[bad[k]]).errors>>],
           repaired |-> SelectSeq(flashcards.v, LAMBDA c : validateFlashcard(c).isValid)]

\* Validator.validateFlashcards
validateFlashcards(flashcards) ==
  IF ~IsArray(flashcards)
  THEN [isValid |-> FALSE, errors |-> <<<<0, <<<<"batch", "not an array">>>>>>>>, repaired |-> <<>>]
  ELSE IF Len(flashcards.v) = 0
  THEN [isValid |-> FALSE, errors |-> <<<<0, <<<<"batch", "empty">>>>>>>>, repaired |-> <<>>]
  ELSE LET bad == SelectSeq([i \in 1..Len(flashcards.v) |-> i],
                            LAMBDA i : ~validateFlashcard(flashcards.v[i]).isValid)
           allErrors == [k \in 1..Len(bad) |-> <<bad[k], validateFlashcard(flashcards.v[bad[k]]).errors>>]
       IN [isValid |-> bad = <<>>,
           errors |-> allErrors,
           repaired |-> IF bad = <<>> THEN flashcards.v ELSE <<>>]

DefaultTag == <<<<"a", 8>>>>

\* variant: the last of the alternate field names that holds a string
pickFieldLastWins(card, first, second, third) ==
  IF ~Falsy(Get(card, third)) /\ IsString(Get(card, third)) THEN Get(card, third).v
  ELSE IF ~Falsy(Get(card, second)) /\ IsString(Get(card, second)) THEN Get(card, second).v
  ELSE IF IsString(Get(card, first)) THEN Get(card, first).v
  ELSE <<>>

\* first of the alternate field names that holds a string (the first name is
\* taken whenever it is a string, the others only when non-empty)
pickField(card, first, second, third) ==
  IF IsString(Get(card, first)) THEN Get(card, first).v
  ELSE IF ~Falsy(Get(card, second)) /\ IsString(Get(card, second)) THEN Get(card, second).v
  ELSE IF ~Falsy(Get(card, third)) /\ IsString(Get(card, third)) THEN Get(card, third).v
  ELSE <<>>

\* variant: overlength content is kept whole
truncateNever(text, max) == text

\* variant: content of exactly the maximal length is cut as well
truncateFromLimit(text, max) ==
  IF StrLen(text) >= max THEN Concat(Substring(text, max - 3), Ellipsis) ELSE text

\* variant: overlength content is cut at the limit and the marker appended
truncateAtMax(text, max) ==
  IF StrLen(text) > max THEN Concat(Substring(text, max), Ellipsis) ELSE text

\* if (front.length > 5000) front = front.substring(0, 4997) + '...'
truncate(text, max) ==
  IF StrLen(text) > max THEN Concat(Substring(text, max - 3), Ellipsis) ELSE text

\* Validator.repairFlashcard; <<>> stands for null, <<card>> for a card
repairFlashcard(flashcard) ==
  IF ~IsObjectLike(flashcard) THEN <<>>
  ELSE LET cleaned == cleanFlashcardContent(
                        pickField(flashcard, "front", "question", "prompt"),
                        pickField(flashcard, "back", "answer", "response"))
           rawTags == IF IsArray(Get(flashcard, "tags"))
                      THEN SelectSeq(Get(flashcard, "tags").v, IsString)
                      ELSE <<>>
           tags == normalizeTags([i \in 1..Len(rawTags) |-> rawTags[i].v])
       IN IF cleaned.front = <<>> \/ cleaned.back = <<>> THEN <<>>
          ELSE <<Object([front |-> String(truncate(cleaned.front, MAX_FRONT)),
                         back |-> String(truncate(cleaned.back, MAX_BACK)),
                         tags |-> Array(IF tags = <<>> THEN <<String(DefaultTag)>>
                                        ELSE [i \in 1..Len(tags) |-> String(tags[i])]),
                         source |-> IF IsString(Get(flashcard, "source"))
                                    THEN Get(flashcard, "source") ELSE Undefined])>>

\* variant: the first candidate that cannot be repaired ends the list
RECURSIVE repairFlashcardsUntilFailure(_)
repairFlashcardsUntilFailure(flashcards) ==
  IF flashcards = <<>> \/ repairFlashcard(Head(flashcards)) = <<>> THEN <<>>
  ELSE repairFlashcard(Head(flashcards)) \o repairFlashcardsUntilFailure(Tail(flashcards))

\* Validator.repairFlashcards
RECURSIVE repairFlashcards(_)
repairFlashcards(flashcards) ==
  IF flashcards = <<>> THEN <<>>
  ELSE repairFlashcard(Head(flashcards)) \o repairFlashcards(Tail(flashcards))

\* variant: the errors of the failed validation are kept beside the repaired list
validateGroqResponseKeepErrors(response) ==
  LET flashcards ==
        IF IsArray(response) THEN response
        ELSE IF IsArray(Get(response, "flashcards")) THEN Get(response, "flashcards")
        ELSE IF IsArray(Get(response, "cards")) THEN Get(response, "cards")
        ELSE Array(<<>>)
      validation == validateFlashcards(flashcards)
      repaired == repairFlashcards(flashcards.v)
  IN IF ~validation.isValid
     THEN [isValid |-> repaired /= <<>>, errors |-> validation.errors, repaired |-> repaired]
     ELSE validation

\* Validator.validateGroqResponse. A string response is JSON text, kept as the
\* value JSON.parse returns for it (field `parsed`); a string without one is
\* not JSON and JSON.parse throws, and so does reading `.flashcards` of a parsed
\* null: the catch block answers both. Only the non-string branch looks at
\* `.cards`. Any other value leaves the candidate list empty.
validateGroqResponse(response) ==
  LET isText == IsString(response)
      parsed == IF ~isText THEN response
                ELSE IF "parsed" \in DOMAIN response THEN response.parsed
                ELSE Undefined
      caught == isText /\ parsed \in {Undefined, Null}
      flashcards ==
        IF IsArray(parsed) THEN parsed
        ELSE IF IsArray(Get(parsed, "flashcards")) THEN Get(parsed, "flashcards")
        ELSE IF ~isText /\ IsArray(Get(parsed, "cards")) THEN Get(parsed, "cards")
        ELSE Array(<<>>)
      validation == validateFlashcards(flashcards)
      repaired == repairFlashcards(flashcards.v)
  IN IF caught
     THEN [isValid |-> FALSE, errors |-> <<<<0, <<<<"response", "parse">>>>>>>>, repaired |-> <<>>]
     ELSE IF ~validation.isValid
     THEN [isValid |-> repaired /= <<>>,
           errors |-> IF repaired /= <<>> THEN <<>> ELSE validation.errors,
           repaired |-> repaired]
     ELSE validation

(* ----------------------- AnkiSyncService: pieces ---------------------- *)
\* variant: unshift instead of push
queueFlashcardFront(queue, flashcard) == <<QueuedSyncItem(flashcard)>> \o queue

\* queueFlashcard: this.syncQueue.push({flashcard, timestamp, retryCount: 0})
queueFlashcard(queue, flashcard) == Append(queue, QueuedSyncItem(flashcard))

\* variant: the guard tests the queue only, not the flag
processQueueBusyNoFlag(flag, queue) == Len(queue) = 0

\* the guard at the top of processQueue
processQueueBusy(flag, queue) == flag \/ Len(queue) = 0

\* variant: a re-queued item starts counting its attempts again
requeueResetsCount(queue, item, maxRetries) ==
  IF item.retryCount < maxRetries
  THEN Append(queue, [item EXCEPT !.retryCount = 0])
  ELSE queue

\* "Re-queue if below max retries"
belowMaxRetries(item, maxRetries) == item.retryCount < maxRetries

\* variant: the item is pushed back without counting the failed attempt
requeueSameCount(queue, item, maxRetries) ==
  IF item.retryCount < maxRetries THEN Append(queue, item) ELSE queue

\* variant: the failed item starts a new queue instead of joining the live one
requeueOverwrites(queue, item, maxRetries) ==
  IF item.retryCount < maxRetries THEN <<[item EXCEPT !.retryCount = @ + 1]>> ELSE <<>>

\* the catch branch of the replay loop: item.retryCount++; this.syncQueue.push(item)
requeue(queue, item, maxRetries) ==
  IF belowMaxRetries(item, maxRetries)
  THEN Append(queue, [item EXCEPT !.retryCount = @ + 1])
  ELSE queue

\* the deck a replay addresses: the loop calls createAnkiNote(item.flashcard)
\* with no customDeckName, and the item holds none
replayDeck(item) == deckName(NoDeck)

\* what a deliver call returns once the card was queued / could not be queued
queuedRet(kind) == IF kind = "status" THEN StatusRet(FALSE, TRUE, FALSE) ELSE BoolRet
failedRet(kind) == IF kind = "status" THEN StatusRet(FALSE, FALSE, TRUE) ELSE ThrowRet
syncedRet(kind) == IF kind = "status" THEN StatusRet(TRUE, FALSE, FALSE) ELSE BoolRet

\* variant: the failure path queues whatever the setting says
offlineQueueAlways(s) == TRUE

\* if (this.settings.enableOfflineQueue)
offlineQueueEnabled(s) == s.enableOfflineQueue

\* variant: the live queue is emptied before the probe is awaited
queueAfterProbeCleared(queue, isAvailable) == <<>>

\* this.syncQueue = [] is reached only past the `if (!isAvailable) return 0`
queueAfterProbe(queue, isAvailable) == IF isAvailable THEN <<>> ELSE queue

\* positions of a deliver call that is not in flight: never called, or returned
\* after the note was added / from the unavailable branch / from the catch block
DReturned == {"idle", "synced", "unavailable", "caught"}
\* positions of a processQueue call that is not in flight: never called, returned
\* at the guard because a pass was in flight, returned otherwise, or left by an
\* exception that went through the finally block
PReturned == {"idle", "busy", "done", "threw"}

DVars == <<dpc, dcard, dkind, ddeck, dret>>
PVars == <<ppc, pitems, pidx, psuccess, pret, pout>>

(* ------------- syncFlashcard / syncFlashcardWithStatus ---------------- *)
\* the failure path of both methods: unreachable store, or the catch block
\* a deliver call returns (or throws) `value` at the return statement `exit`
DeliverReturn(d, exit, value) ==
  /\ dpc' = [dpc EXCEPT ![d] = exit]
  /\ dret' = [dret EXCEPT ![d] = value]
  /\ dcard' = [dcard EXCEPT ![d] = 0]
  /\ dkind' = [dkind EXCEPT ![d] = "plain"]
  /\ ddeck' = [ddeck EXCEPT ![d] = NoDeck]

DeliverFailed(d, exit) ==
  /\ IF offlineQueueEnabled(settings)
     THEN /\ syncQueue' = queueFlashcard(syncQueue, dcard[d])
          /\ storage' = saveQueue(syncQueue')
          /\ outstanding' = outstanding \cup {dcard[d]}
          /\ DeliverReturn(d, exit, queuedRet(dkind[d]))
     ELSE /\ DeliverReturn(d, exit, failedRet(dkind[d]))
          /\ UNCHANGED <<syncQueue, storage, outstanding>>

\* the caller invokes deliver; control runs to `await this.checkAnkiConnect()`
DeliverCall(d) ==
  /\ dpc[d] \in DReturned
  /\ nextCard <= MaxCards
  /\ \E kind \in {"plain", "status"} :
       \E deck \in (IF kind = "status" THEN {NoDeck, CustomDeck} ELSE {NoDeck}) :
         /\ dkind' = [dkind EXCEPT ![d] = kind]
         /\ ddeck' = [ddeck EXCEPT ![d] = deck]
  /\ dcard' = [dcard EXCEPT ![d] = nextCard]
  /\ nextCard' = nextCard + 1
  /\ dpc' = [dpc EXCEPT ![d] = "probe"]
  /\ dret' = [dret EXCEPT ![d] = NoRet]
  /\ UNCHANGED <<utilVars, pluginVars, genVars, batchVars, settings, syncQueue, isProcessingQueue, storage, PVars, outstanding>>

\* checkAnkiConnect settles
DeliverProbe(d) ==
  /\ dpc[d] = "probe"
  /\ \E isAvailable \in BOOLEAN :
       IF isAvailable
       THEN /\ dpc' = [dpc EXCEPT ![d] = "deckNames"]
            /\ UNCHANGED <<syncQueue, storage, outstanding, dret, dcard, dkind, ddeck>>
       ELSE DeliverFailed(d, "unavailable")
  /\ UNCHANGED <<utilVars, pluginVars, genVars, batchVars, settings, isProcessingQueue, PVars, nextCard>>

\* ensureDeckExists: the deckNames call settles; the store is an external
\* collaborator, so the list it returns is the environment's choice
DeliverDeckNames(d) ==
  /\ dpc[d] = "deckNames"
  /\ \E ok \in BOOLEAN, deckNames \in SUBSET {DefaultDeck, CustomDeck} :
       IF ok
       THEN /\ dpc' = [dpc EXCEPT ![d] =
                  IF deckName(ddeck[d]) \in deckNames THEN "addNote" ELSE "createDeck"]
            /\ UNCHANGED <<syncQueue, storage, outstanding, dret, dcard, dkind, ddeck>>
       ELSE DeliverFailed(d, "caught")
  /\ UNCHANGED <<utilVars, pluginVars, genVars, batchVars, settings, isProcessingQueue, PVars, nextCard>>

\* ensureDeckExists: the createDeck call settles
DeliverCreateDeck(d) ==
  /\ dpc[d] = "createDeck"
  /\ \E ok \in BOOLEAN :
       IF ok
       THEN /\ dpc' = [dpc EXCEPT ![d] = "addNote"]
            /\ UNCHANGED <<syncQueue, storage, outstanding, dret, dcard, dkind, ddeck>>
       ELSE DeliverFailed(d, "caught")
  /\ UNCHANGED <<utilVars, pluginVars, genVars, batchVars, settings, isProcessingQueue, PVars, nextCard>>

\* createAnkiNote: the addNote call settles
DeliverAddNote(d) ==
  /\ dpc[d] = "addNote"
  /\ \E ok \in BOOLEAN :
       IF ok
       THEN /\ DeliverReturn(d, "synced", syncedRet(dkind[d]))
            /\ UNCHANGED <<syncQueue, storage, outstanding>>
       ELSE DeliverFailed(d, "caught")
  /\ UNCHANGED <<utilVars, pluginVars, genVars, batchVars, settings, isProcessingQueue, PVars, nextCard>>

(* --------------------------- processQueue ----------------------------- *)
\* the locals of a processQueue call that has returned
ProcessReturn(p, exit, value) ==
  /\ ppc' = [ppc EXCEPT ![p] = exit]
  /\ pret' = [pret EXCEPT ![p] = value]
  /\ pitems' = [pitems EXCEPT ![p] = <<>>]
  /\ pidx' = [pidx EXCEPT ![p] = 0]
  /\ psuccess' = [psuccess EXCEPT ![p] = 0]
  /\ pout' = [pout EXCEPT ![p] = <<>>]

\* the caller invokes processQueue; control runs to `await this.checkAnkiConnect()`
\* or returns 0 at the guard
ProcessCall(p) ==
  /\ ppc[p] \in PReturned
  /\ IF processQueueBusy(isProcessingQueue, syncQueue)
     THEN /\ ProcessReturn(p, IF isProcessingQueue THEN "busy" ELSE "done", 0)
          /\ UNCHANGED isProcessingQueue
     ELSE /\ isProcessingQueue' = TRUE
          /\ ppc' = [ppc EXCEPT ![p] = "probe"]
          /\ pret' = [pret EXCEPT ![p] = -1]
          /\ UNCHANGED <<pitems, pidx, psuccess, pout>>
  /\ UNCHANGED <<utilVars, pluginVars, genVars, batchVars, settings, syncQueue, storage, DVars, nextCard, outstanding>>

\* checkAnkiConnect settles; when available the queue is snapshotted and cleared
\* and the first createAnkiNote is issued
ProcessProbe(p) ==
  /\ ppc[p] = "probe"
  /\ \E isAvailable \in BOOLEAN :
       IF ~isAvailable
       THEN /\ ProcessReturn(p, "done", 0)
            /\ isProcessingQueue' = FALSE
            /\ syncQueue' = queueAfterProbe(syncQueue, isAvailable)
            /\ UNCHANGED storage
       ELSE IF Len(syncQueue) = 0
       THEN \* nothing to replay: saveQueue, finally, return successCount
            /\ ProcessReturn(p, "done", psuccess[p])
            /\ isProcessingQueue' = FALSE
            /\ syncQueue' = queueAfterProbe(syncQueue, isAvailable)
            /\ storage' = saveQueue(syncQueue')
       ELSE /\ pitems' = [pitems EXCEPT ![p] = syncQueue]
            /\ syncQueue' = queueAfterProbe(syncQueue, isAvailable)
            /\ pidx' = [pidx EXCEPT ![p] = 1]
            /\ ppc' = [ppc EXCEPT ![p] = "addNote"]
            /\ UNCHANGED <<isProcessingQueue, storage, psuccess, pret, pout>>
  /\ UNCHANGED <<utilVars, pluginVars, genVars, batchVars, settings, DVars, nextCard, outstanding>>

\* createAnkiNote(item.flashcard) settles for the current item
ProcessAddNote(p) ==
  /\ ppc[p] = "addNote"
  /\ LET item == pitems[p][pidx[p]] IN
     \E ok \in BOOLEAN :
       /\ IF ok
          THEN /\ psuccess' = [psuccess EXCEPT ![p] = @ + 1]
               /\ outstanding' = outstanding \ {item.flashcard}
               /\ UNCHANGED syncQueue
          ELSE /\ syncQueue' = requeue(syncQueue, item, settings.maxRetries)
               /\ outstanding' = IF belowMaxRetries(item, settings.maxRetries)
                                 THEN outstanding ELSE outstanding \ {item.flashcard}
               /\ UNCHANGED psuccess
       /\ pout' = [pout EXCEPT ![p] = Append(@, IF ok THEN "delivered" ELSE "failed")]
  /\ ppc' = [ppc EXCEPT ![p] = "delay"]
  /\ UNCHANGED <<utilVars, pluginVars, genVars, batchVars, settings, isProcessingQueue, storage, DVars,
                 pitems, pidx, pret, nextCard>>

\* delay(100) elapses: next item, or saveQueue / finally / return
ProcessDelay(p) ==
  /\ ppc[p] = "delay"
  /\ IF pidx[p] < Len(pitems[p])
     THEN /\ pidx' = [pidx EXCEPT ![p] = @ + 1]
          /\ ppc' = [ppc EXCEPT ![p] = "addNote"]
          /\ UNCHANGED <<storage, isProcessingQueue, pitems, psuccess, pret, pout>>
     ELSE /\ storage' = saveQueue(syncQueue)
          /\ isProcessingQueue' = FALSE
          /\ ProcessReturn(p, "done", psuccess[p])
  /\ UNCHANGED <<utilVars, pluginVars, genVars, batchVars, settings, syncQueue, DVars, nextCard, outstanding>>

\* variant: the exception leaves the try block without running the finally block
ProcessThrowKeepsFlag(p) ==
  /\ \/ ppc[p] = "probe" /\ UNCHANGED storage
     \/ /\ ppc[p] = "delay" /\ pidx[p] = Len(pitems[p]) /\ psuccess[p] > 0
        /\ storage' = saveQueue(syncQueue)
  /\ ProcessReturn(p, "threw", -1)
  /\ UNCHANGED <<utilVars, pluginVars, genVars, batchVars, settings, syncQueue, isProcessingQueue,
                 DVars, nextCard, outstanding>>

\* an exception inside the try block, which has no catch clause: the only calls
\* there that nothing guards are the two `new Notice(...)`, one on the
\* unavailable branch (before the snapshot) and one after the final saveQueue
\* when successCount > 0; the finally block runs and the exception propagates
ProcessThrow(p) ==
  /\ \/ ppc[p] = "probe" /\ UNCHANGED storage
     \/ /\ ppc[p] = "delay" /\ pidx[p] = Len(pitems[p]) /\ psuccess[p] > 0
        /\ storage' = saveQueue(syncQueue)
  /\ isProcessingQueue' = FALSE
  /\ ProcessReturn(p, "threw", -1)
  /\ UNCHANGED <<utilVars, pluginVars, genVars, batchVars, settings, syncQueue,
                 DVars, nextCard, outstanding>>

(* --------------------------- syncFlashcards --------------------------- *)
\* let syncedCount = 0; let queuedCount = 0; let errorCount = 0
NoCounts == [synced |-> 0, queued |-> 0, errors |-> 0]

\* variant: three independent tests instead of the if / else if / else chain
countResultNoElse(counts, result) ==
  [synced |-> counts.synced + (IF result.synced THEN 1 ELSE 0),
   queued |-> counts.queued + (IF result.queued THEN 1 ELSE 0),
   errors |-> counts.errors + (IF ~result.synced THEN 1 ELSE 0)]

\* if (result.synced) syncedCount++ else if (result.queued) queuedCount++ else errorCount++
countResult(counts, result) ==
  IF result.synced THEN [counts EXCEPT !.synced = @ + 1]
  ELSE IF result.queued THEN [counts EXCEPT !.queued = @ + 1]
  ELSE [counts EXCEPT !.errors = @ + 1]

\* await this.syncFlashcardWithStatus(flashcard, customDeckName) is entered
\* for the next card; control runs to its `await this.checkAnkiConnect()`
BatchIssue(d, deck) ==
  /\ dkind' = [dkind EXCEPT ![d] = "status"]
  /\ ddeck' = [ddeck EXCEPT ![d] = deck]
  /\ dcard' = [dcard EXCEPT ![d] = nextCard]
  /\ nextCard' = nextCard + 1
  /\ dpc' = [dpc EXCEPT ![d] = "probe"]
  /\ dret' = [dret EXCEPT ![d] = NoRet]

\* the head of the for loop: the next card, or the return of the counts
BatchNext(d) ==
  IF bi < bn
  THEN /\ bi' = bi + 1
       /\ bpc' = "await"
       /\ BatchIssue(d, bdeck)
  ELSE /\ bpc' = "returned"
       /\ UNCHANGED <<bi, DVars, nextCard>>

\* the caller invokes syncFlashcards(flashcards, customDeckName)
syncFlashcards(d) ==
  /\ bpc \in {"idle", "returned"}
  /\ dpc[d] \in DReturned
  /\ \E n \in 0..(MaxCards + 1 - nextCard), deck \in {NoDeck, CustomDeck} :
       /\ bn' = n
       /\ bdeck' = deck
       /\ bcounts' = NoCounts
       /\ bout' = <<>>
       /\ IF n = 0
          THEN /\ bpc' = "returned"
               /\ bi' = 0
               /\ UNCHANGED <<DVars, nextCard>>
          ELSE /\ bi' = 1
               /\ bpc' = "await"
               /\ BatchIssue(d, deck)
  /\ UNCHANGED <<utilVars, pluginVars, genVars, settings, syncQueue, isProcessingQueue, storage, PVars, outstanding>>

\* syncFlashcardWithStatus has settled: count its status and pace, or count
\* the error when it threw
BatchSettle(d) ==
  /\ bpc = "await"
  /\ dpc[d] \in DReturned
  /\ LET result == dret[d] IN
     /\ bout' = Append(bout, [card |-> nextCard - 1, result |-> result])
     /\ IF result.ret = "throw"
        THEN /\ bcounts' = [bcounts EXCEPT !.errors = @ + 1]
             /\ BatchNext(d)
        ELSE /\ bcounts' = countResult(bcounts, result)
             /\ bpc' = "delay"
             /\ UNCHANGED <<bi, DVars, nextCard>>
  /\ UNCHANGED <<utilVars, pluginVars, genVars, settings, syncQueue, isProcessingQueue, storage, PVars,
                 outstanding, bn, bdeck>>

\* delay(100) elapses
BatchDelay(d) ==
  /\ bpc = "delay"
  /\ BatchNext(d)
  /\ UNCHANGED <<utilVars, pluginVars, genVars, settings, syncQueue, isProcessingQueue, storage, PVars,
                 outstanding, bn, bdeck, bcounts, bout>>

(* ------------------- clearQueue, updateSettings, restart -------------- *)
clearQueue ==
  /\ syncQueue /= <<>> \/ storage /= saveQueue(<<>>)
  /\ syncQueue' = <<>>
  /\ storage' = saveQueue(syncQueue')
  /\ outstanding' = {}
  /\ UNCHANGED <<utilVars, pluginVars, genVars, batchVars, settings, isProcessingQueue, DVars, PVars, nextCard>>

\* the settings tab writes a field of the shared settings object
updateSettings ==
  /\ \E e \in BOOLEAN, m \in 0..MaxRetriesSetting :
       /\ settings' = [settings EXCEPT !.enableOfflineQueue = e, !.maxRetries = m]
       /\ settings' /= settings
  /\ UNCHANGED <<utilVars, pluginVars, genVars, batchVars, syncQueue, isProcessingQueue, storage, DVars, PVars,
                 nextCard, outstanding>>

\* the process stops at any point and the plugin is loaded again:
\* new AnkiSyncService(settings) runs loadQueue; every call in flight is gone
Restart ==
  /\ syncQueue' = loadQueue(storage)
  /\ isProcessingQueue' = FALSE
  /\ dpc' = [d \in DProcs |-> "idle"]
  /\ dcard' = [d \in DProcs |-> 0]
  /\ dkind' = [d \in DProcs |-> "plain"]
  /\ ddeck' = [d \in DProcs |-> NoDeck]
  /\ dret' = [d \in DProcs |-> NoRet]
  /\ ppc' = [p \in PProcs |-> "idle"]
  /\ pitems' = [p \in PProcs |-> <<>>]
  /\ pidx' = [p \in PProcs |-> 0]
  /\ psuccess' = [p \in PProcs |-> 0]
  /\ pret' = [p \in PProcs |-> -1]
  /\ pout' = [p \in PProcs |-> <<>>]
  /\ outstanding' = QueueCards(syncQueue')
  /\ UNCHANGED <<utilVars, pluginVars, genVars, batchVars, settings, storage, nextCard>>

(* ------------------------------- Spec --------------------------------- *)
\* the settings the services read; DEFAULT_SETTINGS gives the fields a run
\* does not vary
Settings(key, parallel, queue, retries) ==
  [groqApiKey |-> key, maxChunkSize |-> SmallChunkSize, maxParallelRequests |-> parallel,
   enableOfflineQueue |-> queue, maxRetries |-> retries]

NoKey == ""
SomeKey == "gsk_key"
DEFAULT_PARALLEL == 3
DEFAULT_RETRIES == 3

\* GroqFlashcardService after construction: no call made yet
GenIdle ==
  /\ gpc = "idle"
  /\ ginput = <<>>
  /\ gnote = Undefined
  /\ gsum = "none"
  /\ gchunks = <<>>
  /\ gi = 0
  /\ gres = <<>>
  /\ allFlashcards = <<>>
  /\ gret = [kind |-> "none", v |-> <<>>]

\* AnkiSyncService after construction over an empty localStorage
SyncIdle ==
  /\ storage = NoBlob
  /\ syncQueue = loadQueue(storage)
  /\ isProcessingQueue = FALSE
  /\ dpc = [d \in DProcs |-> "idle"]
  /\ dcard = [d \in DProcs |-> 0]
  /\ dkind = [d \in DProcs |-> "plain"]
  /\ ddeck = [d \in DProcs |-> NoDeck]
  /\ dret = [d \in DProcs |-> NoRet]
  /\ ppc = [p \in PProcs |-> "idle"]
  /\ pitems = [p \in PProcs |-> <<>>]
  /\ pidx = [p \in PProcs |-> 0]
  /\ psuccess = [p \in PProcs |-> 0]
  /\ pret = [p \in PProcs |-> -1]
  /\ pout = [p \in PProcs |-> <<>>]
  /\ nextCard = 1
  /\ outstanding = {}
  /\ bpc = "idle"
  /\ bn = 0 /\ bi = 0 /\ bdeck = NoDeck
  /\ bcounts = NoCounts
  /\ bout = <<>>

\* no direct call made
UtilIdle == ucall = "none" /\ uarg = <<>> /\ ures = <<>>

\* ObsiCardPlugin before onload: no timer was started, no saveSettings call made
PluginIdle ==
  /\ lpc = "unloaded"
  /\ queueProcessInterval = 0
  /\ timers = {}
  /\ nextTimer = 1
  /\ spc = [s \in SProcs |-> "idle"]

Init ==
  /\ \E queue \in BOOLEAN, retries \in 0..MaxRetriesSetting :
       settings = Settings(NoKey, DEFAULT_PARALLEL, queue, retries)
  /\ SyncIdle
  /\ GenIdle
  /\ UtilIdle
  /\ PluginIdle

Next ==
  \/ \E d \in DProcs : DeliverCall(d)
  \/ \E d \in DProcs : DeliverProbe(d)
  \/ \E d \in DProcs : DeliverDeckNames(d)
  \/ \E d \in DProcs : DeliverCreateDeck(d)
  \/ \E d \in DProcs : DeliverAddNote(d)
  \/ \E p \in PProcs : ProcessCall(p)
  \/ \E p \in PProcs : ProcessProbe(p)
  \/ \E p \in PProcs : ProcessAddNote(p)
  \/ \E p \in PProcs : ProcessDelay(p)
  \/ clearQueue
  \/ updateSettings
  \/ Restart

Spec == Init /\ [][Next]_vars

\* deliver calls and processQueue passes alone: no clearQueue, no settings
\* change and no restart while they run
NextPass ==
  \/ \E d \in DProcs :
       \/ DeliverCall(d)
       \/ DeliverProbe(d)
       \/ DeliverDeckNames(d)
       \/ DeliverCreateDeck(d)
       \/ DeliverAddNote(d)
  \/ \E p \in PProcs :
       \/ ProcessCall(p)
       \/ ProcessProbe(p)
       \/ ProcessAddNote(p)
       \/ ProcessDelay(p)

SpecPass == Init /\ [][NextPass]_vars

\* checkAnkiConnect answers true to every caller: a deliver call never takes its
\* unavailable branch, and a pass returns from its probe only through the
\* empty-snapshot path (saveQueue of the empty queue, finally, return 0)
StoreReachable ==
  /\ \A d \in DProcs : dpc[d] = "probe" => dpc'[d] # "unavailable"
  /\ \A p \in PProcs :
       (ppc[p] = "probe" /\ ppc'[p] = "done")
       => (syncQueue = <<>> /\ storage' = saveQueue(<<>>))

\* the store stays reachable, the interval timer of startAutoProcessing keeps
\* calling processQueue, and every awaited request and delay settles
SpecRetry ==
  /\ Init
  /\ [][\/ \E d \in DProcs : DeliverCall(d)
        \/ \E d \in DProcs : DeliverProbe(d) /\ StoreReachable
        \/ \E d \in DProcs : DeliverDeckNames(d)
        \/ \E d \in DProcs : DeliverCreateDeck(d)
        \/ \E d \in DProcs : DeliverAddNote(d)
        \/ \E p \in PProcs : ProcessCall(p)
        \/ \E p \in PProcs : ProcessProbe(p) /\ StoreReachable
        \/ \E p \in PProcs : ProcessAddNote(p)
        \/ \E p \in PProcs : ProcessDelay(p)]_vars
  /\ \A p \in PProcs :
       /\ WF_vars(ProcessCall(p))
       /\ WF_vars(ProcessProbe(p) /\ StoreReachable)
       /\ WF_vars(ProcessAddNote(p))
       /\ WF_vars(ProcessDelay(p))

\* the same calls, where a `new Notice(...)` of a pass may also throw
SpecExit ==
  Init /\ [][NextPass \/ \E p \in PProcs : ProcessThrow(p)]_vars

\* a syncFlashcards call and the syncFlashcardWithStatus calls it awaits
NextBatch ==
  \/ \E d \in DProcs :
       \/ syncFlashcards(d)
       \/ DeliverProbe(d)
       \/ DeliverDeckNames(d)
       \/ DeliverCreateDeck(d)
       \/ DeliverAddNote(d)
       \/ BatchSettle(d)
       \/ BatchDelay(d)
  \/ updateSettings

SpecBatch == Init /\ [][NextBatch]_vars

(* -------------------- GroqFlashcardService: pieces -------------------- *)
\* variant: the credential guard is missing
missingApiKeyNever(s) == FALSE

\* if (!this.settings.groqApiKey)
missingApiKey(s) == s.groqApiKey = NoKey

\* if (!content || content.trim().length === 0)
emptyContent(content) == content = <<>> \/ StrLen(Trim(content)) = 0

\* callGroqAPI threw: a non-200 status, no choices, no content, no JSON found
ApiError == [t |-> "error", v |-> <<>>]

\* a promise: not created yet, pending, or settled
NotIssued == [s |-> "notIssued", v |-> <<>>]
Pending == [s |-> "pending", v |-> <<>>]
Rejected == [s |-> "rejected", v |-> <<>>]
Fulfilled(value) == [s |-> "fulfilled", v |-> value]
Settled(promise) == promise.s \in {"fulfilled", "rejected"}

\* variant: card.source || noteName
addMetadataKeepSource(flashcards, noteName) ==
  [i \in 1..Len(flashcards) |->
     Object([f \in DOMAIN flashcards[i].v \cup {"source"} |->
               IF f = "source"
               THEN IF ~Falsy(Get(flashcards[i], "source"))
                    THEN Get(flashcards[i], "source") ELSE noteName
               ELSE flashcards[i].v[f]])]

\* addMetadata: {...card, source: noteName || card.source}
addMetadata(flashcards, noteName) ==
  [i \in 1..Len(flashcards) |->
     Object([f \in DOMAIN flashcards[i].v \cup {"source"} |->
               IF f = "source"
               THEN IF ~Falsy(noteName) THEN noteName ELSE Get(flashcards[i], "source")
               ELSE flashcards[i].v[f]])]

\* generateFromChunk once callGroqAPI has settled with `outcome`
generateFromChunk(outcome, noteName) ==
  IF outcome = ApiError THEN Rejected
  ELSE LET validation == validateGroqResponse(outcome) IN
       IF ~validation.isValid
       THEN IF Len(validation.repaired) > 0
            THEN Fulfilled(addMetadata(validation.repaired, noteName))
            ELSE Rejected
       ELSE Fulfilled(addMetadata(validation.repaired, noteName))

\* variant: a failed summary falls back to the whole content
summarizeContentKeep(content, outcome) ==
  [ok |-> TRUE, text |-> IF outcome = ApiError THEN content ELSE outcome.v]

\* variant: a failed summary is rethrown instead of replaced by the truncation
summarizeContentRethrow(content, outcome) ==
  IF outcome = ApiError
  THEN [ok |-> FALSE, text |-> content]
  ELSE [ok |-> TRUE, text |-> outcome.v]

\* summarizeContent once callGroqAPI(prompt, true) has settled with `outcome`:
\* the summary, or on failure the truncated content; ok = FALSE is a throw
summarizeContent(content, outcome) ==
  IF outcome = ApiError
  THEN [ok |-> TRUE, text |-> truncateToTokenLimit(content, SUMMARY_FALLBACK_TOKENS)]
  ELSE [ok |-> TRUE, text |-> outcome.v]

\* variant: chunks.slice(i), every remaining chunk at once
batchSliceToEnd(n, i, maxParallel) == {j \in 1..n : i < j}

\* chunks.slice(i, i + maxParallel), as the positions 1..n of the chunks in it
batchSlice(n, i, maxParallel) == {j \in 1..n : i < j /\ j <= i + maxParallel}

\* variant: the calls of a batch are never started
issueBatchNone(promises, batch) == promises

\* batch.map(chunk => this.generateFromChunk(...)): one call per chunk of the batch
issueBatch(promises, batch) ==
  [j \in 1..Len(promises) |-> IF j \in batch THEN Pending ELSE promises[j]]

\* variant: Promise.race, the first settled call resumes the loop
anySettled(promises, batch) == \E j \in batch : Settled(promises[j])

\* await Promise.allSettled(batchPromises) resumes
allSettled(promises, batch) == \A j \in batch : Settled(promises[j])

\* variant: a rejected call discards what was gathered so far
collectResultOrReset(all, result) ==
  IF result.s = "fulfilled" THEN all \o result.v ELSE <<>>

\* if (result.status === 'fulfilled') allFlashcards.push(...result.value)
collectResult(all, result) ==
  IF result.s = "fulfilled" THEN all \o result.v ELSE all

\* for (const result of results) ...
RECURSIVE collectBatch(_, _, _, _)
collectBatch(all, promises, from, to) ==
  IF from > to THEN all
  ELSE collectBatch(collectResult(all, promises[from]), promises, from + 1, to)

GReturned == {"idle", "returned", "threw"}

(* ------------------------- generateFlashcards ------------------------- *)
GenThrow(message) ==
  /\ gpc' = "threw"
  /\ gret' = [kind |-> "error", v |-> message]
  /\ allFlashcards' = <<>>
  /\ gi' = 0

GenReturn(flashcards) ==
  /\ gpc' = "returned"
  /\ gret' = [kind |-> "cards", v |-> flashcards]
  /\ allFlashcards' = <<>>
  /\ gi' = 0

\* processChunks up to its first await (or its return when there is no chunk)
StartProcessChunks(chunks) ==
  /\ gchunks' = chunks
  /\ IF Len(chunks) = 0
     THEN /\ GenReturn(<<>>)
          /\ gres' = <<>>
     ELSE /\ gres' = issueBatch([j \in 1..Len(chunks) |-> NotIssued],
                                batchSlice(Len(chunks), 0, settings.maxParallelRequests))
          /\ gi' = 0
          /\ allFlashcards' = <<>>
          /\ gpc' = "batch"
          /\ gret' = [kind |-> "none", v |-> <<>>]

\* a paragraph of exactly maxChunkSize tokens, and a text of k of them
RECURSIVE Paragraphs(_)
Paragraphs(k) ==
  LET paragraph == <<<<"a", CHARS_PER_TOKEN * SmallChunkSize>>>>
  IN IF k <= 1 THEN paragraph ELSE Concat(Concat(Paragraphs(k - 1), ParagraphBreak), paragraph)

\* a text over the summarization threshold
Huge == <<<<"a", CHARS_PER_TOKEN * SUMMARIZATION_THRESHOLD + CHARS_PER_TOKEN>>>>

\* texts that fit one chunk and that splitting, joining and trimming would change:
\* blanks around two short paragraphs, a trailing paragraph break, a length
\* that is not a multiple of CHARS_PER_TOKEN
Contents ==
  {<<>>, <<<<" ", 3>>>>, Huge, <<<<" ", 1>>, <<"a", 2>>, <<"n", 2>>, <<"a", 1>>, <<" ", 1>>>>,
   <<<<"a", 1>>, <<"n", 2>>>>, <<<<"a", CHARS_PER_TOKEN + 1>>>>}
  \cup {Paragraphs(k) : k \in 1..MaxParagraphs}
NoteNames == {Undefined, String(<<<<"a", 4>>>>)}
SummaryOutcomes == {ApiError, String(Paragraphs(1)), String(Paragraphs(MaxParallelSetting + 1))}

\* what the service may answer for the chunk at position j
GoodCard(j) == Object([front |-> String(<<<<"a", j>>>>), back |-> String(<<<<"a", 1>>>>),
                       tags |-> Array(<<String(<<<<"a", 3>>>>)>>)])
GroqOutcomes(j) ==
  LET altCard == Object([question |-> String(<<<<"a", j>>>>), answer |-> String(<<<<"a", 1>>>>)])
      badCard == Object([front |-> String(<<<<"a", 1>>>>)])
  IN {ApiError, Array(<<GoodCard(j)>>), Array(<<altCard, badCard>>), Array(<<badCard>>)}

\* candidates the service may put in its array for a note of a single chunk:
\* well-formed ones that carry a source, unnormalised tags, many tags or a long
\* tag, and malformed ones that need the alternate field names, truncation or
\* cannot be repaired
Letters(n) == <<<<"a", n>>>>
Capitalised == <<<<"A", 1>>, <<"a", 2>>>>
Card(front, back, tags) ==
  Object([front |-> String(front), back |-> String(back),
          tags |-> Array([i \in 1..Len(tags) |-> String(tags[i])])])
Candidates ==
  { Object([front |-> String(Letters(1)), back |-> String(Letters(1)),
            tags |-> Array(<<String(Letters(3))>>), source |-> String(Letters(2))]),
    Card(Letters(1), Letters(2), <<Capitalised, Capitalised>>),
    Card(Letters(1), Letters(3), [i \in 1..(MAX_TAGS + 1) |-> Letters(i)]),
    Card(Letters(1), Letters(4), <<Letters(MAX_TAG_LENGTH + 1)>>),
    Card(<<<<" ", 1>>, <<"a", 1>>, <<" ", 1>>>>, Letters(5), <<Letters(3)>>),
    Object([question |-> String(Letters(2)), answer |-> String(Letters(1)),
            tags |-> Array(<<String(Capitalised), String(Letters(3)), String(Capitalised)>>),
            source |-> String(Letters(2))]),
    Card(Letters(MAX_FRONT + 1), Letters(MAX_BACK + 1), <<>>),
    Card(<<<<" ", 3>>>>, Letters(1), <<Letters(3)>>) }
RichOutcomes ==
  {Array(<<c>>) : c \in Candidates}
  \cup {Array(<<c, d>>) : c, d \in Candidates}
  \cup {Object([flashcards |-> Array(<<c>>)]) : c \in Candidates}
  \cup {Object([cards |-> Array(<<c>>)]) : c \in Candidates}
  \cup {Object([data |-> Array(<<c>>)]) : c \in Candidates}

\* the caller invokes generateFlashcards(content, mode, userTags, noteName)
GenerateCall ==
  /\ gpc \in GReturned
  /\ \E content \in Contents, noteName \in NoteNames :
       /\ ginput' = content
       /\ gnote' = noteName
       /\ IF missingApiKey(settings)
          THEN /\ GenThrow("Groq API key not configured")
               /\ gsum' = "none" /\ gchunks' = <<>> /\ gres' = <<>>
          ELSE IF emptyContent(content)
          THEN /\ GenThrow("Empty content")
               /\ gsum' = "none" /\ gchunks' = <<>> /\ gres' = <<>>
          ELSE LET chunkingResult == chunkText(content, settings.maxChunkSize) IN
               IF chunkingResult.requiresSummarization
               THEN /\ gsum' = "pending"
                    /\ gpc' = "summarize"
                    /\ gchunks' = <<>> /\ gres' = <<>> /\ gi' = 0
                    /\ allFlashcards' = <<>>
                    /\ gret' = [kind |-> "none", v |-> <<>>]
               ELSE /\ gsum' = "none"
                    /\ StartProcessChunks(chunkingResult.chunks)
  /\ UNCHANGED <<settings, syncVars, utilVars, pluginVars>>

\* the summarize call settles; the summary (or the truncated content) is re-chunked
SummarizeSettle ==
  /\ gpc = "summarize"
  /\ \E outcome \in SummaryOutcomes :
       LET summary == summarizeContent(ginput, outcome) IN
       /\ gsum' = IF outcome = ApiError THEN "rejected" ELSE "fulfilled"
       /\ IF ~summary.ok
          THEN /\ GenThrow("Summarization failed")
               /\ UNCHANGED <<gchunks, gres>>
          ELSE StartProcessChunks(chunkText(summary.text, settings.maxChunkSize).chunks)
  /\ UNCHANGED <<ginput, gnote, settings, syncVars, utilVars, pluginVars>>

\* the generateFromChunk call of the chunk at position j settles
ChunkSettle(j) ==
  /\ gpc = "batch"
  /\ j \in 1..Len(gres)
  /\ gres[j].s = "pending"
  /\ \E outcome \in GroqOutcomes(j) \cup (IF Len(gchunks) = 1 THEN RichOutcomes ELSE {}) :
       gres' = [gres EXCEPT ![j] = generateFromChunk(outcome, gnote)]
  /\ UNCHANGED <<gpc, ginput, gnote, gsum, gchunks, gi, allFlashcards, gret, settings, syncVars, utilVars, pluginVars>>

\* Promise.allSettled resumes: collect, then pace or return
BatchSettled ==
  /\ gpc = "batch"
  /\ allSettled(gres, batchSlice(Len(gchunks), gi, settings.maxParallelRequests))
  /\ LET last == IF gi + settings.maxParallelRequests < Len(gchunks)
                 THEN gi + settings.maxParallelRequests ELSE Len(gchunks)
         collected == collectBatch(allFlashcards, gres, gi + 1, last) IN
     IF gi + settings.maxParallelRequests < Len(gchunks)
     THEN /\ allFlashcards' = collected
          /\ gpc' = "delay"
          /\ UNCHANGED <<gi, gret>>
     ELSE GenReturn(collected)
  /\ UNCHANGED <<ginput, gnote, gsum, gchunks, gres, settings, syncVars, utilVars, pluginVars>>

\* delay(500) elapses: i += maxParallel and the next batch is issued
DelayElapsed ==
  /\ gpc = "delay"
  /\ gi' = gi + settings.maxParallelRequests
  /\ gres' = issueBatch(gres, batchSlice(Len(gchunks), gi', settings.maxParallelRequests))
  /\ gpc' = "batch"
  /\ UNCHANGED <<ginput, gnote, gsum, gchunks, allFlashcards, gret, settings, syncVars, utilVars, pluginVars>>

\* the settings tab changes the credential or the parallelism between two calls
updateGroqSettings ==
  /\ gpc \in GReturned
  /\ \E key \in {NoKey, SomeKey}, parallel \in 1..MaxParallelSetting :
       /\ settings' = [settings EXCEPT !.groqApiKey = key, !.maxParallelRequests = parallel]
       /\ settings' /= settings
  /\ UNCHANGED <<utilVars, pluginVars, genVars, batchVars, syncVars>>

InitGen ==
  /\ \E key \in {NoKey, SomeKey}, parallel \in 1..MaxParallelSetting :
       settings = Settings(key, parallel, TRUE, DEFAULT_RETRIES)
  /\ SyncIdle
  /\ GenIdle
  /\ UtilIdle
  /\ PluginIdle

NextGen ==
  \/ GenerateCall
  \/ SummarizeSettle
  \/ \E j \in 1..(MaxParagraphs + 1) : ChunkSettle(j)
  \/ BatchSettled
  \/ DelayElapsed
  \/ updateGroqSettings

SpecGen == InitGen /\ [][NextGen]_vars

\* every call to the generation service settles, every delay(500) elapses and
\* every settled await resumes. The settling of the summarize call is stated by
\* its effect on the position, which is what WF_vars(SummarizeSettle) amounts
\* to: SummarizeSettle is enabled exactly at "summarize" and is the only step
\* that leaves it.
SpecGenFair ==
  /\ InitGen
  /\ [][NextGen]_vars
  /\ []<>(gpc /= "summarize")
  /\ \A j \in 1..(MaxParagraphs + 1) : WF_vars(ChunkSettle(j))
  /\ WF_vars(BatchSettled)
  /\ WF_vars(DelayElapsed)

(* ------------- TokenUtils, Validator, Sanitizer called directly ------------- *)
\* texts for chunkText: up to MaxTextParagraphs paragraphs joined by blank
\* lines, each paragraph empty, blank, a word of at most one, of two or of three
\* tokens, one sentence, two sentences, a sentence followed by unterminated
\* text, terminators before a sentence, or two lines; and texts at and just
\* over the summarization threshold
Texts ==
  LET forms == { <<>>,
                 <<<<" ", 1>>>>,
                 <<<<"a", 1>>>>,
                 <<<<"a", CHARS_PER_TOKEN>>>>,
                 <<<<"a", CHARS_PER_TOKEN + 1>>>>,
                 <<<<"a", 3 * CHARS_PER_TOKEN>>>>,
                 <<<<"a", 2>>, <<".", 1>>>>,
                 <<<<"a", 3>>, <<".", 1>>, <<" ", 1>>, <<"a", 3>>, <<".", 1>>>>,
                 <<<<"a", 3>>, <<".", 1>>, <<" ", 1>>, <<"a", 4>>>>,
                 <<<<".", 2>>, <<"a", 6>>, <<".", 1>>>>,
                 <<<<"a", 1>>, <<"n", 1>>, <<"a", 1>>>> }
      RECURSIVE joined(_)
      joined(k) == IF k <= 1 THEN forms
                   ELSE {Concat(Concat(t, ParagraphBreak), f) : t \in joined(k - 1), f \in forms}
  IN UNION {joined(k) : k \in 1..MaxTextParagraphs}
     \cup {<<<<"a", CHARS_PER_TOKEN * SUMMARIZATION_THRESHOLD>>>>, Huge,
           Concat(Concat(Huge, ParagraphBreak), Huge)}

\* TokenUtils.chunkText(text, maxChunkSize) called with any text and a size that
\* is small or just over the summarization threshold
ChunkTextCall ==
  /\ ucall = "none"
  /\ \E text \in Texts, maxChunkSize \in 1..SmallChunkSize \cup {SUMMARIZATION_THRESHOLD + 1} :
       /\ ucall' = "chunkText"
       /\ uarg' = [text |-> text, maxChunkSize |-> maxChunkSize]
       /\ ures' = chunkText(text, maxChunkSize)
  /\ UNCHANGED <<settings, syncVars, genVars, pluginVars>>

\* inputs of validateFlashcards and repairFlashcards: lists of up to MaxBatch
\* candidates, and values that are not arrays.  Next to the candidates of the
\* generation service: values that are not objects, cards whose first field
\* name holds an empty string or no string, cards with only the third names or
\* with all six, white space inside the content, tags that are padded, empty or
\* not strings, and a card exactly at the limits.
Batches ==
  LET items ==
        Candidates \cup
        { Null, Number, String(Letters(1)), Array(<<>>),
          Object([front |-> String(<<>>), question |-> String(Letters(2)),
                  back |-> String(Letters(1)), tags |-> Array(<<>>)]),
          Object([question |-> String(<<>>), prompt |-> String(Letters(3)),
                  answer |-> String(<<>>), response |-> String(Letters(4)), tags |-> Number]),
          Object([front |-> Number, question |-> String(Letters(2)), prompt |-> String(Letters(3)),
                  back |-> Null, answer |-> String(Letters(2)), response |-> String(Letters(3))]),
          Object([prompt |-> String(Letters(3)), response |-> String(Letters(4))]),
          Object([front |-> String(Letters(1)), question |-> String(Letters(2)),
                  prompt |-> String(Letters(3)), back |-> String(Letters(1)),
                  answer |-> String(Letters(2)), response |-> String(Letters(3)),
                  tags |-> Array(<<String(Letters(3))>>)]),
          Object([front |-> String(<<<<"a", 1>>, <<" ", 2>>, <<"a", 1>>>>),
                  back |-> String(<<<<"a", 1>>, <<"n", 1>>, <<"a", 1>>>>),
                  tags |-> Array(<<String(<<<<" ", 1>>, <<"A", 1>>, <<"a", 2>>, <<" ", 1>>>>),
                                   String(Letters(3)), String(<<>>), Number, String(Letters(2))>>)]),
          Card(Letters(MAX_FRONT), Letters(MAX_BACK), <<Letters(MAX_TAG_LENGTH)>>),
          Card(<<<<"a", MAX_FRONT - 4>>, <<" ", 1>>, <<"a", 10>>>>, Letters(MAX_BACK), <<>>) }
      RECURSIVE lists(_)
      lists(k) == IF k = 0 THEN {<<>>} ELSE {Append(l, c) : l \in lists(k - 1), c \in items}
  IN {Array(l) : l \in UNION {lists(k) : k \in 0..MaxBatch}}
     \cup {Null, String(Letters(1)), Object([flashcards |-> Array(<<>>)])}

\* inputs of normalizeTags: lists of up to MaxTagList tags that are empty,
\* blank, capitalised, padded, at or over MAX_TAG_LENGTH, and two lists of more
\* than MAX_TAGS tags, one of them with a duplicate among the first ten
TagLists ==
  LET tagset == { <<>>, Blank, Capitalised, Letters(3), Letters(2), <<<<"A", 3>>>>,
                  <<<<" ", 1>>, <<"a", 3>>, <<" ", 1>>>>,
                  Letters(MAX_TAG_LENGTH), Letters(MAX_TAG_LENGTH + 1),
                  <<<<" ", 1>>, <<"a", MAX_TAG_LENGTH>>>> }
      RECURSIVE lists(_)
      lists(k) == IF k = 0 THEN {<<>>} ELSE {Append(l, c) : l \in lists(k - 1), c \in tagset}
  IN UNION {lists(k) : k \in 0..MaxTagList}
     \cup { [i \in 1..(MAX_TAGS + 1) |-> Letters(i)],
            <<Letters(1)>> \o [i \in 1..(MAX_TAGS + 1) |-> Letters(i)] }

\* Validator.validateFlashcards(flashcards) called with any input
ValidateFlashcardsCall ==
  /\ ucall = "none"
  /\ \E flashcards \in Batches :
       /\ ucall' = "validateFlashcards"
       /\ uarg' = flashcards
       /\ ures' = validateFlashcards(flashcards)
  /\ UNCHANGED <<settings, syncVars, genVars, pluginVars>>

\* Validator.repairFlashcards(flashcards) called with any input; what is not
\* an array is answered with the empty list
RepairFlashcardsCall ==
  /\ ucall = "none"
  /\ \E flashcards \in Batches :
       /\ ucall' = "repairFlashcards"
       /\ uarg' = flashcards
       /\ ures' = IF IsArray(flashcards) THEN repairFlashcards(flashcards.v) ELSE <<>>
  /\ UNCHANGED <<settings, syncVars, genVars, pluginVars>>

\* Sanitizer.normalizeTags(tags) called with any list of strings
NormalizeTagsCall ==
  /\ ucall = "none"
  /\ \E tags \in TagLists :
       /\ ucall' = "normalizeTags"
       /\ uarg' = tags
       /\ ures' = normalizeTags(tags)
  /\ UNCHANGED <<settings, syncVars, genVars, pluginVars>>

\* Validator.validateGroqResponse(response) called with every response shape:
\* the arrays of Batches, objects wrapping an array under flashcards, cards or
\* another name, values that are neither, the JSON text of each of those, and
\* text that is not JSON
ValidateGroqResponseCall ==
  /\ ucall = "none"
  /\ LET values == Batches \cup RichOutcomes
                     \cup {Number, Undefined, Object([cards |-> Null]),
                           Object([flashcards |-> Number, cards |-> Array(<<GoodCard(1)>>)])}
         texts == {[t |-> "string", v |-> Letters(1), parsed |-> x] : x \in values \ {Undefined}}
     IN \E response \in values \cup texts \cup {String(<<>>)} :
          /\ ucall' = "validateGroqResponse"
          /\ uarg' = response
          /\ ures' = validateGroqResponse(response)
  /\ UNCHANGED <<settings, syncVars, genVars, pluginVars>>

\* the caller is done with the result
UtilReturn ==
  /\ ucall /= "none"
  /\ ucall' = "none" /\ uarg' = <<>> /\ ures' = <<>>
  /\ UNCHANGED <<settings, syncVars, genVars, pluginVars>>

InitUtil ==
  /\ settings = Settings(NoKey, DEFAULT_PARALLEL, TRUE, DEFAULT_RETRIES)
  /\ SyncIdle
  /\ GenIdle
  /\ UtilIdle
  /\ PluginIdle

NextUtil ==
  \/ ChunkTextCall
  \/ ValidateFlashcardsCall
  \/ RepairFlashcardsCall
  \/ NormalizeTagsCall
  \/ ValidateGroqResponseCall
  \/ UtilReturn

SpecUtil == InitUtil /\ [][NextUtil]_vars

(* --------------------------- ObsiCardPlugin --------------------------- *)
\* onload up to `await this.loadSettings()`
onload ==
  /\ lpc = "unloaded"
  /\ lpc' = "loadSettings"
  /\ UNCHANGED <<settings, syncVars, genVars, utilVars,
                 queueProcessInterval, timers, nextTimer, spc>>

\* loadData settles: the settings are DEFAULT_SETTINGS overlaid with the stored
\* data, which the environment picks; the services are constructed (the queue is
\* rehydrated) and, with the offline queue enabled, startQueueProcessing stores
\* the id of a new interval timer
loadSettings ==
  /\ lpc = "loadSettings"
  /\ \E enableOfflineQueue \in BOOLEAN :
       /\ settings' = [settings EXCEPT !.enableOfflineQueue = enableOfflineQueue]
       /\ IF enableOfflineQueue
          THEN /\ nextTimer <= MaxTimers
               /\ queueProcessInterval' = nextTimer
               /\ timers' = timers \cup {nextTimer}
               /\ nextTimer' = nextTimer + 1
          ELSE UNCHANGED <<queueProcessInterval, timers, nextTimer>>
  /\ lpc' = "loaded"
  /\ syncQueue' = loadQueue(storage)
  /\ isProcessingQueue' = FALSE
  /\ UNCHANGED <<storage, DVars, PVars, nextCard, outstanding, batchVars,
                 genVars, utilVars, spc>>

\* the settings tab writes a field (here the offline-queue toggle, to either
\* value) and calls saveSettings, which runs to `await this.saveData(...)`
saveSettings(s) ==
  /\ lpc = "loaded"
  /\ spc[s] # "saveData"
  /\ \E value \in BOOLEAN :
       settings' = [settings EXCEPT !.enableOfflineQueue = value]
  /\ spc' = [spc EXCEPT ![s] = "saveData"]
  /\ UNCHANGED <<syncVars, genVars, utilVars, lpc, queueProcessInterval, timers, nextTimer>>

\* saveData settles. Rejected: saveSettings throws. Fulfilled: the services get
\* the settings, the timer whose id is stored is stopped (clearInterval), and
\* with the offline queue enabled startQueueProcessing stores a new timer's id
saveData(s) ==
  /\ spc[s] = "saveData"
  /\ \E ok \in BOOLEAN :
       IF ~ok
       THEN /\ spc' = [spc EXCEPT ![s] = "threw"]
            /\ UNCHANGED <<queueProcessInterval, timers, nextTimer>>
       ELSE LET stopped == IF queueProcessInterval # 0
                           THEN timers \ {queueProcessInterval} ELSE timers
            IN /\ spc' = [spc EXCEPT ![s] = "returned"]
               /\ IF settings.enableOfflineQueue
                  THEN /\ nextTimer <= MaxTimers
                       /\ queueProcessInterval' = nextTimer
                       /\ timers' = stopped \cup {nextTimer}
                       /\ nextTimer' = nextTimer + 1
                  ELSE /\ timers' = stopped
                       /\ UNCHANGED <<queueProcessInterval, nextTimer>>
  /\ UNCHANGED <<settings, syncVars, genVars, utilVars, lpc>>

\* onunload: the timer whose id is stored is stopped
onunload ==
  /\ lpc = "loaded"
  /\ lpc' = "unloaded"
  /\ timers' = IF queueProcessInterval # 0 THEN timers \ {queueProcessInterval} ELSE timers
  /\ UNCHANGED <<settings, syncVars, genVars, utilVars, queueProcessInterval, nextTimer, spc>>

\* the plugin's lifecycle and its settings tab; an active interval timer calls
\* processQueue
SpecPlugin ==
  /\ Init
  /\ [][\/ onload
        \/ loadSettings
        \/ \E s \in SProcs : saveSettings(s)
        \/ \E s \in SProcs : saveData(s)
        \/ onunload
        \/ \E p \in PProcs : timers # {} /\ ProcessCall(p)]_vars

(* ======================= claims: delivery queue ======================= *)
InFlight(p) == ppc[p] \notin PReturned
DeliverInFlight(d) == dpc[d] \notin DReturned

\* C1: at every point where the process can stop, every card that was enqueued
\* and has since been neither delivered nor dropped for retry exhaustion is in
\* the persisted queue blob, so that loadQueue rehydrates it after a restart.
C1_CrashDurability == outstanding \subseteq QueueCards(loadQueue(storage))

\* C2: an item whose retryCount equals maxRetries - 1 and whose delivery fails
\* in a processQueue pass is dropped: it is not re-appended to the queue.
C2_DroppedAtMaxRetriesMinusOne ==
  [][\A p \in PProcs :
       (/\ ppc[p] = "addNote" /\ ppc'[p] = "delay"
        /\ psuccess'[p] = psuccess[p]
        /\ pitems[p][pidx[p]].retryCount = settings.maxRetries - 1)
       => pitems[p][pidx[p]].flashcard \notin QueueCards(syncQueue')]_vars

\* C3: processQueue is mutually exclusive. A call made while another call is in
\* flight returns 0 at the guard, issues no store call (it is suspended at no
\* await) and changes neither the queue nor the blob; no two calls are in
\* flight together, so no item is handed to addNote by two overlapping calls.
C3_ReentrantCallIsNoOp ==
  \A q \in PProcs :
    (/\ ppc[q] \in PReturned
     /\ \E p \in PProcs \ {q} : InFlight(p)
     /\ <<ppc[q], pret[q]>>' /= <<ppc[q], pret[q]>>
     /\ ppc'[q] /= "idle")
    => (/\ ppc'[q] = "busy" /\ pret'[q] = 0
        /\ UNCHANGED <<syncQueue, storage, isProcessingQueue>>)

Attempted(p) == {pitems[p][i].flashcard : i \in 1..pidx[p]}

C3_NoOverlap ==
  \A p, q \in PProcs :
    p /= q => /\ ~(InFlight(p) /\ InFlight(q))
              /\ Attempted(p) \cap Attempted(q) = {}

C3_MutualExclusion == [][C3_ReentrantCallIsNoOp]_vars /\ []C3_NoOverlap

C3_Witness ==
  \E p, q \in PProcs : ppc[p] = "addNote" /\ ppc[q] = "busy" /\ pret[q] = 0

C5_FailedWhenQueueDisabled ==
  [][\A d \in DProcs :
       (/\ DeliverInFlight(d)
        /\ dpc'[d] \in {"unavailable", "caught"}
        /\ ~settings.enableOfflineQueue)
       => (/\ UNCHANGED <<syncQueue, storage>>
           /\ dret'[d] = IF dkind[d] = "status"
                         THEN StatusRet(FALSE, FALSE, TRUE) ELSE ThrowRet)]_vars

C5_Witness ==
  \E d \in DProcs :
    /\ dpc[d] \in {"unavailable", "caught"} /\ dret[d] \in {StatusRet(FALSE, FALSE, TRUE), ThrowRet}
    /\ syncQueue /= <<>> /\ ~settings.enableOfflineQueue

(* ======================= claims: generation =========================== *)
\* calls to the generation service that were issued and have not settled
InFlightCalls ==
  (IF gsum = "pending" THEN 1 ELSE 0)
  + Cardinality({j \in 1..Len(gres) : gres[j].s = "pending"})

\* the batch a chunk position belongs to, batches being maxParallelRequests wide
BatchOf(j) == (j - 1) \div settings.maxParallelRequests

OnlyWhitespace(s) == \A i \in 1..Len(s) : s[i][1] \in Whitespace

\* the cards of the fulfilled calls among the first j, in chunk order
RECURSIVE FulfilledValues(_, _)
FulfilledValues(promises, j) ==
  IF j = 0 THEN <<>>
  ELSE FulfilledValues(promises, j - 1)
       \o (IF promises[j].s = "fulfilled" THEN promises[j].v ELSE <<>>)

\* C6: at every moment the number of generation-service calls issued and not
\* yet settled is at most maxParallelRequests, whatever the number of chunks.
C6_ConcurrencyCeiling == InFlightCalls <= settings.maxParallelRequests

\* a later batch of an input with more chunks than the ceiling is fully in flight
C6_Witness ==
  /\ settings.maxParallelRequests >= 2
  /\ Len(gchunks) > settings.maxParallelRequests
  /\ gi > 0
  /\ InFlightCalls = settings.maxParallelRequests

\* C7: no call for a chunk of a later batch has been issued while a call of an
\* earlier batch is still unsettled.
C7_NoCrossBatchOverlap ==
  \A j, k \in 1..Len(gres) :
    (BatchOf(j) < BatchOf(k) /\ gres[k].s /= "notIssued") => Settled(gres[j])

\* a call of the second batch is pending after a call of the first was rejected
C7_Witness ==
  \E j, k \in 1..Len(gres) :
    /\ BatchOf(j) < BatchOf(k)
    /\ gres[j].s = "rejected"
    /\ gres[k].s = "pending"

\* C8: when generateFlashcards returns, the call of every chunk was issued and
\* has settled, whichever chunks failed, and the list returned is exactly the
\* cards of the chunks that succeeded, in chunk order.
C8_PartialFailureTolerance ==
  gpc = "returned" =>
    /\ Len(gres) = Len(gchunks)
    /\ \A j \in 1..Len(gres) : Settled(gres[j])
    /\ gret = [kind |-> "cards", v |-> FulfilledValues(gres, Len(gres))]

\* returned after a chunk of the first batch failed and one of a later batch succeeded
C8_Witness ==
  /\ gpc = "returned"
  /\ \E j, k \in 1..Len(gres) :
       /\ BatchOf(j) < BatchOf(k)
       /\ gres[j].s = "rejected"
       /\ gres[k].s = "fulfilled"
  /\ \E j \in 1..Len(gres) : gres[j].s = "fulfilled" /\ BatchOf(j) = 0
  /\ Len(gret.v) >= 2

\* C9: a generateFlashcards call made without a credential, or with empty or
\* whitespace-only content, fails with an error and issues no call to the
\* generation service, neither summarize nor generate.
C9_GuardsFailBeforeAnyCall ==
  [][(/\ gpc \in GReturned
      /\ genVars' /= genVars
      /\ (settings.groqApiKey = NoKey \/ OnlyWhitespace(ginput')))
     => (/\ gpc' = "threw"
         /\ gret'.kind = "error"
         /\ gsum' = "none"
         /\ gres' = <<>>)]_vars

\* a call with a credential and whitespace-only content has thrown
C9_Witness ==
  /\ gpc = "threw"
  /\ settings.groqApiKey /= NoKey
  /\ ginput /= <<>> /\ OnlyWhitespace(ginput)
  /\ gret = [kind |-> "error", v |-> "Empty content"]
  /\ InFlightCalls = 0

\* C10: with a credential set and non-blank content, no step of
\* generateFlashcards ends in an error propagated to the caller; a call that
\* ends, ends with a card list.
C10_NoErrorPastTheGuards ==
  [][(/\ genVars' /= genVars
      /\ gpc' \in {"returned", "threw"}
      /\ settings.groqApiKey /= NoKey
      /\ ~OnlyWhitespace(ginput'))
     => (gpc' = "returned" /\ gret'.kind = "cards")]_vars

\* returned the empty list after the summary call and every chunk call failed
C10_Witness ==
  /\ gpc = "returned"
  /\ gsum = "rejected"
  /\ Len(gres) > 0
  /\ \A j \in 1..Len(gres) : gres[j].s = "rejected"
  /\ gret = [kind |-> "cards", v |-> <<>>]

(* ================== claims: deck, pass result, batch ================== *)
\* C11: every addNote call, issued by a deliver call or by a processQueue
\* replay, is issued from the point where the same operation's deckNames call
\* returned a list holding the target deck, or where its createDeck call returned.
C11_DeckEnsuredBeforeAddNote ==
  [][/\ \A d \in DProcs :
          (dpc'[d] = "addNote" /\ dpc[d] /= "addNote")
          => dpc[d] \in {"deckNames", "createDeck"}
     /\ \A p \in PProcs :
          (ppc'[p] = "addNote" /\ ppc[p] /= "addNote")
          => ppc[p] \in {"deckNames", "createDeck"}]_vars

\* the items of a snapshot that must be back in the queue after the pass: those
\* whose replay failed under the ceiling, counted once more, in snapshot order
RECURSIVE ExpectedRequeued(_, _, _)
ExpectedRequeued(items, outcomes, maxRetries) ==
  IF items = <<>> THEN <<>>
  ELSE (IF Head(outcomes) = "failed" /\ Head(items).retryCount < maxRetries
        THEN <<[flashcard |-> Head(items).flashcard,
                retryCount |-> Head(items).retryCount + 1]>>
        ELSE <<>>)
       \o ExpectedRequeued(Tail(items), Tail(outcomes), maxRetries)

\* the items of `queue` whose card is one of `cards`, in queue order
RECURSIVE RestrictTo(_, _)
RestrictTo(queue, cards) ==
  IF queue = <<>> THEN <<>>
  ELSE (IF Head(queue).flashcard \in cards THEN <<Head(queue)>> ELSE <<>>)
       \o RestrictTo(Tail(queue), cards)

C14_PersistedAfterEveryMutation ==
  [][(\/ \E d \in DProcs :
           /\ dpc[d] \notin DReturned /\ dpc'[d] \in {"unavailable", "caught"}
           /\ syncQueue' /= syncQueue
      \/ \E p \in PProcs :
           /\ ppc[p] = "addNote" /\ ppc'[p] = "delay"
           /\ \/ psuccess'[p] = psuccess[p] + 1
              \/ pitems[p][pidx[p]].retryCount >= settings.maxRetries)
     => loadQueue(storage') = syncQueue']_vars

\* the cards of a syncFlashcards call whose awaited status is `status`
Counted(status) == {i \in 1..Len(bout) : bout[i].result = status}

\* C15: when syncFlashcards returns, every card was attempted once, in order,
\* whatever the earlier outcomes were; each card is counted in exactly one of
\* synced, queued and errors, and the three counts add up to cards.length.
C15_CountsPartitionTheCards ==
  bpc = "returned" =>
    /\ Len(bout) = bn
    /\ \A i \in 1..Len(bout) : bout[i].card = bout[1].card + i - 1
    /\ bcounts.synced = Cardinality(Counted(StatusRet(TRUE, FALSE, FALSE)))
    /\ bcounts.queued = Cardinality(Counted(StatusRet(FALSE, TRUE, FALSE)))
    /\ bcounts.errors = Cardinality(Counted(StatusRet(FALSE, FALSE, TRUE)) \cup Counted(ThrowRet))
    /\ bcounts.synced + bcounts.queued + bcounts.errors = bn

\* a call over two cards has returned after the first card failed and the
\* second was queued
C15_Witness ==
  /\ bpc = "returned" /\ bn = 2
  /\ bout[1].result = StatusRet(FALSE, FALSE, TRUE)
  /\ bout[2].result = StatusRet(FALSE, TRUE, FALSE)
  /\ bcounts = [synced |-> 0, queued |-> 1, errors |-> 1]

(* ================= claims: generation, summary and cards ============== *)
\* C16: a generateFlashcards call issues a summarize call exactly when the
\* content is over the summarization threshold; while that call is pending no
\* chunk call exists; when it fails the chunks are those of the content
\* truncated with the 8000-token budget; once it has settled the text is
\* chunked and the chunk calls start, and no other summarize call is issued
\* before the invocation ends.
C16_SummarizeOnceThenChunk ==
  [][/\ (gpc \in GReturned /\ genVars' /= genVars /\ gpc' /= "threw")
        => (gsum' = "pending" <=> countTokens(ginput') > SUMMARIZATION_THRESHOLD)
     /\ gsum' = "pending" => (gpc' = "summarize" /\ gres' = <<>>)
     /\ (gsum = "pending" /\ gsum' /= "pending")
        => /\ gsum' \in {"fulfilled", "rejected"}
           /\ gpc' \in {"batch", "returned"}
           /\ \A j \in 1..Len(gres') :
                gres'[j].s = "pending" <=> j <= settings.maxParallelRequests
     /\ (gsum = "pending" /\ gsum' = "rejected")
        => gchunks' = chunkText(truncateToTokenLimit(ginput, SUMMARY_FALLBACK_TOKENS),
                                settings.maxChunkSize).chunks
     /\ (gsum \in {"fulfilled", "rejected"} /\ gpc \notin GReturned)
        => gsum' = gsum]_vars

\* the summarize call failed and the chunk calls of the truncated content are in flight
C16_Witness ==
  /\ gsum = "rejected"
  /\ gpc = "batch"
  /\ countTokens(ginput) > SUMMARIZATION_THRESHOLD
  /\ Len(gchunks) >= 1
  /\ \E j \in 1..Len(gres) : gres[j].s = "pending"

\* the cards generateFlashcards returned
Returned == IF gpc = "returned" THEN gret.v ELSE <<>>

\* C17: with a non-empty source label, every card generateFlashcards returns
\* carries that label as its source, whatever the path it took and whatever
\* source the generator's output carried.
C17_SourceIsTheLabel ==
  ~Falsy(gnote) => \A i \in 1..Len(Returned) : Get(Returned[i], "source") = gnote

\* two cards were returned for one chunk under the label
C17_Witness ==
  /\ ~Falsy(gnote)
  /\ Len(gchunks) = 1
  /\ Len(Returned) = 2
  /\ \A i \in 1..2 : Get(Returned[i], "source") = gnote

NonEmptyWithin(value, max) ==
  /\ IsString(value)
  /\ StrLen(Trim(value.v)) > 0
  /\ StrLen(value.v) <= max

\* C18: every card generateFlashcards returns has a front and a back that are
\* non-empty after trimming, the front of at most 5000 and the back of at most
\* 10000 characters.
C18_FrontAndBackWithinLimits ==
  \A i \in 1..Len(Returned) :
    /\ NonEmptyWithin(Get(Returned[i], "front"), 5000)
    /\ NonEmptyWithin(Get(Returned[i], "back"), 10000)

\* a returned card whose front and back were cut to the limits
C18_Witness ==
  \E i \in 1..Len(Returned) :
    /\ StrLen(Get(Returned[i], "front").v) = 5000
    /\ StrLen(Get(Returned[i], "back").v) = 10000

\* C19: every card generateFlashcards returns has tags that are lower-case,
\* pairwise distinct, at most 10, each of at most 50 characters.
C19_TagsNormalised ==
  \A i \in 1..Len(Returned) :
    LET tags == Get(Returned[i], "tags") IN
    /\ IsArray(tags)
    /\ Len(tags.v) <= 10
    /\ \A j \in 1..Len(tags.v) :
         /\ IsString(tags.v[j])
         /\ \A r \in 1..Len(tags.v[j].v) : tags.v[j].v[r][1] /= "A"
         /\ StrLen(tags.v[j].v) <= 50
    /\ \A j, k \in 1..Len(tags.v) : j /= k => tags.v[j] /= tags.v[k]


\* C20: a text whose estimate ceil(length / 4) is at most maxChunkSize is
\* chunked into exactly one chunk: its content is the text unchanged, its index
\* is 0 and its tokenCount is the estimate.  Checked on every generateFlashcards
\* call that gets past the guards with such a text.
C20_SmallTextIsOneChunk ==
  [][(/\ gpc \in GReturned
      /\ genVars' /= genVars
      /\ gpc' /= "threw"
      /\ (StrLen(ginput') + 3) \div 4 <= settings.maxChunkSize)
     => gchunks' = <<[content |-> ginput',
                      tokenCount |-> (StrLen(ginput') + 3) \div 4,
                      index |-> 0]>>]_vars

\* a text with blanks around it and a paragraph break inside went out as one chunk
C20_Witness ==
  /\ gpc = "batch"
  /\ gsum = "none"
  /\ Trim(ginput) /= ginput
  /\ Len(splitParagraphs(ginput)) > 1
  /\ Len(gchunks) = 1
  /\ gchunks[1].content = ginput
  /\ gchunks[1].index = 0
  /\ gchunks[1].tokenCount = (StrLen(ginput) + 3) \div 4


\* the text, the size and the result of the chunkText call just made
ChunkCalled == ucall = "chunkText"
Estimate(text) == (StrLen(text) + 3) \div 4

\* C21: for every text and every maxChunkSize, chunkText reports
\* requiresSummarization exactly when the text's estimate ceil(length / 4)
\* exceeds 10000.
C21_SummarizationFlag ==
  ChunkCalled => (ures.requiresSummarization <=> Estimate(uarg.text) > 10000)


\* the sentences chunkText may emit whole: those of the paragraphs that alone
\* exceed the size
OversizedSentences(text, maxChunkSize) ==
  UNION { SeqToSet(splitBySentences(p)) :
            p \in {q \in SeqToSet(splitParagraphs(text)) : Estimate(q) > maxChunkSize} }

\* C22: every chunk chunkText returns has tokenCount at most maxChunkSize,
\* except a chunk that is one single sentence which alone exceeds maxChunkSize.
C22_ChunksWithinLimit ==
  ChunkCalled =>
    \A i \in 1..Len(ures.chunks) :
      LET chunk == ures.chunks[i] IN
      \/ chunk.tokenCount <= uarg.maxChunkSize
      \/ \E sentence \in OversizedSentences(uarg.text, uarg.maxChunkSize) :
           /\ Estimate(sentence) > uarg.maxChunkSize
           /\ chunk.content = Trim(sentence)
           /\ chunk.tokenCount = Estimate(sentence)

\* a text was split into several chunks, one of them at the limit and one a
\* single sentence over it
C22_Witness ==
  /\ ChunkCalled
  /\ Len(ures.chunks) >= 3
  /\ \E i \in 1..Len(ures.chunks) : ures.chunks[i].tokenCount = uarg.maxChunkSize
  /\ \E i \in 1..Len(ures.chunks) : ures.chunks[i].tokenCount > uarg.maxChunkSize

\* the characters of a text that are not white space
RECURSIVE NonBlank(_)
NonBlank(s) ==
  IF s = <<>> THEN <<>>
  ELSE IF Head(s)[1] \in Whitespace THEN NonBlank(Tail(s))
  ELSE Concat(<<Head(s)>>, NonBlank(Tail(s)))

RECURSIVE ContentsInOrder(_)
ContentsInOrder(chunks) ==
  IF chunks = <<>> THEN <<>>
  ELSE Concat(Concat(Head(chunks).content, ParagraphBreak), ContentsInOrder(Tail(chunks)))

\* s.substring(n)
RECURSIVE Drop(_, _)
Drop(s, n) ==
  IF s = <<>> \/ n <= 0 THEN s
  ELSE IF Head(s)[2] > n THEN <<<<Head(s)[1], Head(s)[2] - n>>>> \o Tail(s)
  ELSE Drop(Tail(s), n - Head(s)[2])

\* s.includes(part)
Contains(s, part) ==
  \E k \in 0..(StrLen(s) - StrLen(part)) : Substring(Drop(s, k), StrLen(part)) = part

\* C23: the chunk contents, concatenated in index order, hold the paragraphs of
\* the text in their order with nothing omitted (white space aside), and a
\* paragraph that does not alone exceed maxChunkSize lies whole in one chunk.
C23_ChunksReconstructTheText ==
  ChunkCalled =>
    /\ \A i \in 1..Len(ures.chunks) : ures.chunks[i].index = i - 1
    /\ NonBlank(ContentsInOrder(ures.chunks)) = NonBlank(uarg.text)
    /\ \A p \in SeqToSet(splitParagraphs(uarg.text)) :
         (Estimate(p) <= uarg.maxChunkSize /\ Trim(p) /= <<>>)
         => \E i \in 1..Len(ures.chunks) : Contains(ures.chunks[i].content, Trim(p))

\* C24: every chunk chunkText returns has content that is non-empty after trimming.
C24_NoEmptyChunk ==
  ChunkCalled => \A i \in 1..Len(ures.chunks) : Trim(ures.chunks[i].content) /= <<>>


\* the positions (from 1) of the candidates of a list that fail validateFlashcard
Failing(flashcards) ==
  SelectSeq([i \in 1..Len(flashcards) |-> i], LAMBDA i : ~validateFlashcard(flashcards[i]).isValid)

ValidIff ==
  ures.isValid <=> /\ IsArray(uarg)
                   /\ Len(uarg.v) > 0
                   /\ \A i \in 1..Len(uarg.v) : validateFlashcard(uarg.v[i]).isValid

\* C25 as stated: isValid exactly for a non-empty array whose candidates all
\* pass validateFlashcard; whenever the result is invalid, errors holds exactly
\* one entry per failing candidate, labelled with its position from 1, and
\* repaired is empty.
C25_OneErrorPerFailingCandidate ==
  ucall = "validateFlashcards" =>
    /\ ValidIff
    /\ ~ures.isValid =>
         LET failing == IF IsArray(uarg) THEN Failing(uarg.v) ELSE <<>> IN
         /\ Len(ures.errors) = Len(failing)
         /\ \A k \in 1..Len(failing) : ures.errors[k][1] = failing[k]
         /\ ures.repaired = <<>>

\* C25 amended: as stated for an input that is a non-empty array; for an input
\* that is not an array or is the empty array, errors holds the one message
\* that says so and repaired is empty.
C25_BatchValidation ==
  ucall = "validateFlashcards" =>
    /\ ValidIff
    /\ ~ures.isValid =>
         /\ ures.repaired = <<>>
         /\ IF IsArray(uarg) /\ Len(uarg.v) > 0
            THEN LET failing == Failing(uarg.v) IN
                 /\ Len(ures.errors) = Len(failing)
                 /\ \A k \in 1..Len(failing) : ures.errors[k][1] = failing[k]
            ELSE /\ Len(ures.errors) = 1
                 /\ ures.errors[1][1] = 0
    /\ ures.isValid => ures.repaired = uarg.v

\* a list whose first candidate is valid and whose second is not: one error,
\* labelled 2, and nothing repaired
C25_Witness ==
  /\ ucall = "validateFlashcards"
  /\ IsArray(uarg) /\ Len(uarg.v) = 2
  /\ validateFlashcard(uarg.v[1]).isValid
  /\ ~ures.isValid
  /\ Len(ures.errors) = 1 /\ ures.errors[1][1] = 2
  /\ ures.repaired = <<>>


\* a text after Sanitizer.cleanFlashcardContent
Cleaned(text) == sanitizeText(cleanAIArtifacts(text))

\* the front and the back a candidate is left with after field fallback and cleaning
RecoveredFront(c) == Cleaned(pickField(c, "front", "question", "prompt"))
RecoveredBack(c) == Cleaned(pickField(c, "back", "answer", "response"))

\* a text as it is after repair: itself, or cut to max characters
AsRepaired(value, text, max) ==
  /\ IsString(value)
  /\ IF StrLen(text) <= max THEN value.v = text ELSE StrLen(value.v) = max

\* C26: repairFlashcards returns, in input order, one card for each candidate
\* except those whose front or back is still empty after field fallback and
\* cleaning, and discards no other candidate; every call returns (an input that
\* is not an array gives the empty list).
C26_OnlyEmptyCandidatesDiscarded ==
  ucall = "repairFlashcards" =>
    LET kept == IF IsArray(uarg)
                THEN SelectSeq(uarg.v, LAMBDA c : RecoveredFront(c) /= <<>> /\ RecoveredBack(c) /= <<>>)
                ELSE <<>>
    IN /\ Len(ures) = Len(kept)
       /\ \A i \in 1..Len(kept) :
            /\ AsRepaired(Get(ures[i], "front"), RecoveredFront(kept[i]), MAX_FRONT)
            /\ AsRepaired(Get(ures[i], "back"), RecoveredBack(kept[i]), MAX_BACK)

\* of two candidates the first was discarded and the second, an object without
\* front or back but with the alternate names, came back as a card
C26_Witness ==
  /\ ucall = "repairFlashcards"
  /\ IsArray(uarg) /\ Len(uarg.v) = 2
  /\ IsObjectLike(uarg.v[1]) /\ RecoveredFront(uarg.v[1]) = <<>>
  /\ ~IsString(Get(uarg.v[2], "front"))
  /\ Len(ures) = 1
  /\ Get(ures[1], "front").v = RecoveredFront(uarg.v[2])

\* the first of three fields that holds a string
FirstString(c, first, second, third) ==
  IF IsString(Get(c, first)) THEN Get(c, first).v
  ELSE IF IsString(Get(c, second)) THEN Get(c, second).v
  ELSE IF IsString(Get(c, third)) THEN Get(c, third).v
  ELSE <<>>

\* the first field when it holds a string, else the first of the other two that
\* holds a non-empty string
FirstStringThenNonEmpty(c, first, second, third) ==
  IF IsString(Get(c, first)) THEN Get(c, first).v
  ELSE IF IsString(Get(c, second)) /\ Get(c, second).v /= <<>> THEN Get(c, second).v
  ELSE IF IsString(Get(c, third)) /\ Get(c, third).v /= <<>> THEN Get(c, third).v
  ELSE <<>>

\* the single candidate of a repairFlashcards call
OneCandidate == ucall = "repairFlashcards" /\ IsArray(uarg) /\ Len(uarg.v) = 1

\* the card repair makes of texts front and back: none when one is empty after cleaning
RepairedFrom(front, back) ==
  IF Cleaned(front) = <<>> \/ Cleaned(back) = <<>> THEN ures = <<>>
  ELSE /\ Len(ures) = 1
       /\ AsRepaired(Get(ures[1], "front"), Cleaned(front), MAX_FRONT)
       /\ AsRepaired(Get(ures[1], "back"), Cleaned(back), MAX_BACK)

\* C27 as stated: during repair the front is taken from the first present field
\* among front, question, prompt and the back from the first present field
\* among back, answer, response (a field is present when it holds a string).
C27_FirstPresentFieldWins ==
  OneCandidate =>
    RepairedFrom(FirstString(uarg.v[1], "front", "question", "prompt"),
                 FirstString(uarg.v[1], "back", "answer", "response"))

\* C27 amended: the front is the field front whenever that holds a string, even
\* an empty one; otherwise it is the first of question, prompt that holds a
\* non-empty string.  The back likewise from back, then answer, response.
C27_FallbackOrder ==
  OneCandidate =>
    RepairedFrom(FirstStringThenNonEmpty(uarg.v[1], "front", "question", "prompt"),
                 FirstStringThenNonEmpty(uarg.v[1], "back", "answer", "response"))

\* a candidate whose front and back hold no string and whose other four names
\* all hold text came back with its question and its answer
C27_Witness ==
  /\ OneCandidate
  /\ ~IsString(Get(uarg.v[1], "front")) /\ ~IsString(Get(uarg.v[1], "back"))
  /\ IsString(Get(uarg.v[1], "prompt")) /\ IsString(Get(uarg.v[1], "response"))
  /\ Get(uarg.v[1], "question") /= Get(uarg.v[1], "prompt")
  /\ Len(ures) = 1
  /\ Get(ures[1], "front") = Get(uarg.v[1], "question")
  /\ Get(ures[1], "back") = Get(uarg.v[1], "answer")

\* C28: repair truncates and never rejects overlength content: a cleaned front
\* longer than 5000 characters becomes its first 4997 characters followed by
\* "..." (5000 characters), a cleaned back longer than 10000 its first 9997
\* followed by "...", and the card is returned.
C28_TruncatedNotRejected ==
  (/\ OneCandidate
   /\ RecoveredFront(uarg.v[1]) /= <<>>
   /\ RecoveredBack(uarg.v[1]) /= <<>>)
  => LET front == RecoveredFront(uarg.v[1])
         back == RecoveredBack(uarg.v[1])
     IN /\ Len(ures) = 1
        /\ StrLen(front) > 5000
           => /\ Get(ures[1], "front").v = Concat(Substring(front, 4997), Ellipsis)
              /\ StrLen(Get(ures[1], "front").v) = 5000
        /\ StrLen(back) > 10000
           => /\ Get(ures[1], "back").v = Concat(Substring(back, 9997), Ellipsis)
              /\ StrLen(Get(ures[1], "back").v) = 10000
        /\ StrLen(front) <= 5000 => Get(ures[1], "front").v = front
        /\ StrLen(back) <= 10000 => Get(ures[1], "back").v = back

\* a front of 5006 characters with a blank before the cut came back cut, next
\* to a back of exactly 10000 characters that was left whole
C28_Witness ==
  /\ OneCandidate
  /\ StrLen(RecoveredFront(uarg.v[1])) > 5000
  /\ StrLen(RecoveredBack(uarg.v[1])) = 10000
  /\ Len(ures) = 1
  /\ Get(ures[1], "front").v = <<<<"a", 4996>>, <<" ", 1>>, <<".", 3>>>>
  /\ Get(ures[1], "back").v = RecoveredBack(uarg.v[1])


\* a tag as normalizeTags keeps it: lower-cased and trimmed
Lowered(tag) == Trim(toLowerCase(tag))
Acceptable(tag) == StrLen(tag) > 0 /\ StrLen(tag) <= 50

\* the position of the first tag of a list that normalises to tag
FirstAt(tags, tag) ==
  CHOOSE i \in 1..Len(tags) : Lowered(tags[i]) = tag /\ \A j \in 1..(i - 1) : Lowered(tags[j]) /= tag

\* C29: normalizeTags returns the input tags lower-cased and trimmed, without
\* empty entries or entries over 50 characters, each once at the place of its
\* first occurrence, and only the first 10 of them.
C29_NormalizeTags ==
  ucall = "normalizeTags" =>
    LET distinct == {Lowered(uarg[i]) : i \in {j \in 1..Len(uarg) : Acceptable(Lowered(uarg[j]))}}
    IN /\ Len(ures) = IF Cardinality(distinct) < 10 THEN Cardinality(distinct) ELSE 10
       /\ \A i \in 1..Len(ures) : ures[i] \in distinct
       /\ \A i, j \in 1..Len(ures) : i < j => FirstAt(uarg, ures[i]) < FirstAt(uarg, ures[j])
       /\ \A tag \in distinct :
            (\A i \in 1..Len(ures) : ures[i] /= tag)
            => \A i \in 1..Len(ures) : FirstAt(uarg, ures[i]) < FirstAt(uarg, tag)

\* the repaired card's tags are the normalised string tags of the candidate, or
\* the one default tag when none is left
C29_DefaultTag ==
  (OneCandidate /\ Len(ures) = 1) =>
    LET given == Get(uarg.v[1], "tags")
        strings == IF IsArray(given) THEN SelectSeq(given.v, IsString) ELSE <<>>
        tags == normalizeTags([i \in 1..Len(strings) |-> strings[i].v])
    IN Get(ures[1], "tags") =
         Array(IF tags = <<>> THEN <<String(DefaultTag)>> ELSE [i \in 1..Len(tags) |-> String(tags[i])])

C29_TagsNormalisedAndDefaulted == C29_NormalizeTags /\ C29_DefaultTag

\* twelve tags with a duplicate among the first ten came back as the first ten
\* distinct ones
C29_Witness ==
  /\ ucall = "normalizeTags"
  /\ Len(uarg) = 12
  /\ uarg[1] = uarg[2]
  /\ Len(ures) = 10
  /\ ures[1] = uarg[1] /\ ures[10] = uarg[11]


\* repairFlashcards was called with a list that passes validateFlashcards
ValidListRepaired == ucall = "repairFlashcards" /\ validateFlashcards(uarg).isValid

SameContent(card, given) ==
  /\ Get(card, "front") = Get(given, "front")
  /\ Get(card, "back") = Get(given, "back")
  /\ Get(card, "tags") = Get(given, "tags")

\* C30 as stated: repairing a card list that already passes validation returns
\* the same number of cards in the same order with front, back and tags equal
\* to the input's.
C30_RepairKeepsValidCards ==
  ValidListRepaired =>
    /\ Len(ures) = Len(uarg.v)
    /\ \A i \in 1..Len(ures) : SameContent(ures[i], uarg.v[i])

\* a card that cleaning and tag normalisation leave as it is
AlreadyClean(given) ==
  LET tags == [i \in 1..Len(Get(given, "tags").v) |-> Get(given, "tags").v[i].v] IN
  /\ Cleaned(Get(given, "front").v) = Get(given, "front").v
  /\ Cleaned(Get(given, "back").v) = Get(given, "back").v
  /\ tags /= <<>>
  /\ normalizeTags(tags) = tags

\* C30 amended: repairing a card list that already passes validation, whose
\* fronts and backs are unchanged by cleaning and whose tags are non-empty and
\* unchanged by normalisation, returns the same number of cards in the same
\* order with front, back and tags equal to the input's.
C30_RepairKeepsCleanValidCards ==
  (ValidListRepaired /\ \A i \in 1..Len(uarg.v) : AlreadyClean(uarg.v[i])) =>
    /\ Len(ures) = Len(uarg.v)
    /\ \A i \in 1..Len(ures) : SameContent(ures[i], uarg.v[i])

\* two different clean valid cards, one of them exactly at the limits, came
\* back in order and unchanged
C30_Witness ==
  /\ ValidListRepaired
  /\ Len(uarg.v) = 2 /\ Len(ures) = 2
  /\ uarg.v[1] /= uarg.v[2]
  /\ StrLen(Get(uarg.v[2], "front").v) = MAX_FRONT
  /\ \A i \in 1..2 : AlreadyClean(uarg.v[i]) /\ SameContent(ures[i], uarg.v[i])


C32_ClearedQueueStaysEmpty ==
  [][(syncQueue = <<>> /\ loadQueue(storage) = <<>>)
     => \/ syncQueue' = <<>> /\ loadQueue(storage') = <<>>
        \/ \E d \in DProcs : /\ dpc[d] \notin DReturned
                             /\ syncQueue' = queueFlashcard(syncQueue, dcard[d])]_vars


\* C33: isProcessingQueue is true exactly while a processQueue call is in
\* flight; after every exit (the guard, an unreachable store, the end of the
\* loop, an exception) it is false, so a call made after a pass has ended is not
\* turned away as busy: a call is at "busy" only if it was made while another
\* call was in flight or none has finished since.
C33_BusyFlagOnlyInFlight ==
  /\ isProcessingQueue <=> \E p \in PProcs : ppc[p] \notin PReturned
  /\ \A p, q \in PProcs :
       (ppc[p] \notin PReturned /\ ppc[q] \notin PReturned) => p = q

\* a pass ended by an exception, and a later call is replaying the queue
C33_Witness ==
  \E p, q \in PProcs :
    /\ ppc[p] = "threw"
    /\ ppc[q] = "addNote"
    /\ isProcessingQueue


\* C34: while the store stays reachable, processQueue keeps being called and
\* maxRetries does not change, a card that is in the queue (or in the snapshot
\* of the pass in flight) eventually is in neither, because it was delivered or
\* because it was dropped at the retry limit: no card is retried forever.
C34_EveryQueuedItemLeaves ==
  \A c \in 1..MaxCards : (c \in outstanding) ~> (c \notin outstanding)

\* a card that failed again at the retry limit has just been dropped
C34_Witness ==
  \E p \in PProcs :
    /\ ppc[p] = "delay"
    /\ settings.maxRetries >= 1
    /\ pitems[p][pidx[p]].retryCount = settings.maxRetries
    /\ pout[p][pidx[p]] = "failed"
    /\ pitems[p][pidx[p]].flashcard \notin outstanding
    /\ pitems[p][pidx[p]].flashcard \notin QueueCards(syncQueue)


\* C35: the target deck of a card survives queuing: on the step in which a
\* syncFlashcardWithStatus call queues its card, the deck to which a later
\* processQueue pass will add the queued item is the deck the call was given
\* (customDeckName, or the configured deck when none was given).
C35_QueuedCardKeepsItsDeck ==
  [][\A d \in DProcs :
       (/\ dpc[d] \notin DReturned
        /\ dkind[d] = "status"
        /\ dpc'[d] \in DReturned
        /\ dret'[d] = StatusRet(FALSE, TRUE, FALSE))
       => /\ syncQueue' = queueFlashcard(syncQueue, dcard[d])
          /\ replayDeck(syncQueue'[Len(syncQueue')]) = deckName(ddeck[d])]_vars


\* C36: for every response shape (an array, an object wrapping an array, any
\* other value, JSON text of any of these, text that is not JSON)
\* validateGroqResponse returns a result, never an exception, and in that result
\* isValid is true exactly when the repaired list is non-empty and exactly when
\* the errors list is empty.
C36_OutcomeConsistent ==
  ucall = "validateGroqResponse" =>
    /\ DOMAIN ures = {"isValid", "errors", "repaired"}
    /\ ures.isValid \in BOOLEAN
    /\ ures.isValid <=> ures.repaired /= <<>>
    /\ ures.isValid <=> ures.errors = <<>>

\* JSON text of an array whose only candidate fails validation and is repaired
\* from its alternate field names: valid, one card, no errors
C36_Witness ==
  /\ ucall = "validateGroqResponse"
  /\ IsString(uarg) /\ "parsed" \in DOMAIN uarg
  /\ IsArray(uarg.parsed) /\ Len(uarg.parsed.v) = 1
  /\ ~validateFlashcards(uarg.parsed).isValid
  /\ ures.isValid /\ Len(ures.repaired) = 1 /\ ures.errors = <<>>


\* C37: with maxParallelRequests >= 1 and every service call settling, a
\* generateFlashcards call in flight eventually returns or throws. With n chunks
\* it returns from batch number ceil(n / maxParallelRequests) (from no batch
\* when n = 0): each delay moves i on by maxParallelRequests, the call returns
\* from the batch that starts at i = maxParallelRequests * (ceil(n / max) - 1),
\* and a delay is entered only while chunks remain after the batch.
C37_GenerationTerminates ==
  /\ (gpc \notin GReturned) ~> (gpc \in GReturned)
  /\ [][LET n == Len(gchunks)
            max == settings.maxParallelRequests
        IN /\ max >= 1
           /\ (gpc = "batch" /\ gpc' = "returned")
              => gi = max * (((n + max - 1) \div max) - 1)
           /\ (gpc /= "batch" /\ gpc' = "returned" /\ genVars' /= genVars)
              => Len(gchunks') = 0
           /\ (gpc /= "delay" /\ gpc' = "delay") => (gpc = "batch" /\ gi + max < n)
           /\ (gpc = "delay" /\ gpc' /= "delay") => (gpc' = "batch" /\ gi' = gi + max)]_vars

\* a call over three chunks, two at a time, has returned: its second batch held
\* one chunk
C37_Witness ==
  /\ gpc = "returned"
  /\ settings.maxParallelRequests = 2
  /\ Len(gchunks) = 3
  /\ \A j \in 1..3 : Settled(gres[j])


\* C38: whatever the order of onload, saveSettings (toggling the offline queue
\* either way) and onunload, at most one interval timer is active at any time;
\* none is active while the plugin is unloaded, and none is active when a
\* saveSettings call returns with the offline queue disabled.
C38_AtMostOneTimer ==
  /\ [](Cardinality(timers) <= 1)
  /\ [](lpc = "unloaded" => timers = {})
  /\ [][\A s \in SProcs :
          (spc[s] = "saveData" /\ spc'[s] = "returned" /\ ~settings.enableOfflineQueue)
          => timers' = {}]_vars

====
